---- MODULE Spec2Model ----
(***************************************************************************)
(* Agent loop of the browser-automation side panel (sidepanel.tsx):        *)
(*   - executeTool: the message transport with its bounded retry,          *)
(*   - requiresUserConfirmation: the safety policy engine,                 *)
(*   - scaleCoordinates: the coordinate normalizer,                        *)
(*   - executeBrowserAction: the dispatcher of the model's function calls, *)
(*   - streamWithGeminiComputerUse / handleSubmit / stop: the agent loop.  *)
(* The specifications share the variables: SpecTransport steps one         *)
(* executeTool call attempt by attempt, SpecSafety evaluates one           *)
(* requiresUserConfirmation call, SpecScale one scaleCoordinates call,     *)
(* SpecAction runs one function call through executeBrowserAction and the  *)
(* loop's handling of its result, SpecTurn dispatches the parts of one     *)
(* model turn await by await, Spec runs one submission of the loop,        *)
(* SpecMcp interleaves handleSubmit, stop, newChat and toggleBrowserTools  *)
(* over the cache of the MCP client, SpecKeys runs the content script's    *)
(* key_combination action (content.ts) event by event.                     *)
(***************************************************************************)
EXTENDS Integers, Sequences, FiniteSets, TLC

VARIABLES
    \* ---- executeTool (one call, attempt by attempt)
    txPc,          \* "idle" | "sent" | "delay" | "resolved" | "rejected"
    txTool,        \* toolName of the call
    retryCount,    \* the retryCount parameter of the running attempt
    txAttempts,    \* chrome.runtime.sendMessage calls made so far
    txLast,        \* response handed to handleResponse by the last attempt
    txResult,      \* value the promise resolved with
    txAllConn,     \* every attempt so far ended in a connection error
    \* ---- requiresUserConfirmation (one evaluation)
    sPc,           \* "input" | "done"
    sFn,           \* functionName
    sArgs,         \* args
    sPage,         \* the page the browser shows: [url, text]
    sReply,        \* what executeTool('getPageContext') resolved with
    sAnswer,       \* what window.confirm would return
    sAsked,        \* window.confirm was shown
    sDenied,       \* value returned by requiresUserConfirmation
    \* ---- agent loop (one handleSubmit in browser-tools mode)
    pc,            \* "idle" | "fetch" | "await" | "dispatch" | "done"
    turn,          \* loop variable of the agent loop
    requests,      \* model requests sent (fetch calls)
    parts,         \* parts of the model turn being dispatched
    idx,           \* index of the next part to dispatch
    functionResponses, \* names of the function responses collected this turn
    responseText,  \* fragments accumulated in responseText: "text" (text of
                   \* a turn with calls), "exec" ([Executing: name]), "final"
                   \* (text of the turn without calls)
    lastMsg,       \* last entry of the messages list: [role, content]
    isLoading,     \* the loading indicator
    refAborted,    \* abortControllerRef.current.signal.aborted
    reasons,       \* terminal states the run went through
    thrown,        \* the error handleSubmit caught: [name, at]
    unanswered,    \* contents holds a functionCall without its function_response
    denied,        \* requiresUserConfirmation returned true for some call
    sentAfterStop, \* a model request was started after stop()
    allCalls,      \* every model response so far carried a function call
    \* ---- scaleCoordinates (one call)
    scPc,          \* "idle" | "input" | "done"
    scX,           \* the x argument
    scY,           \* the y argument
    scReply,       \* outcome of executeTool('getPageContext', {})
    scOut,         \* the returned { x, y }
    \* ---- one function call: executeBrowserAction and the loop's handling
    aPc,           \* "idle" | "check" | "run" | "returned" | "responded" | "thrown"
    aFn,           \* functionName
    aArgs,         \* args
    aReply,        \* what the page-context queries of this call resolve with
    aAnswer,       \* what window.confirm would return
    aAsked,        \* window.confirm was shown
    aDenied,       \* requiresUserConfirmation returned true
    aPlan,         \* backend steps executeBrowserAction has still to make
    aLog,          \* backend messages sent so far, each with its outcome
    aResult,       \* value executeBrowserAction returned
    aDelay,        \* settle delay the loop waited, in ms
    aShot,         \* the screenshot taken after the call: "none" | "ok" | "failed"
    aFr,           \* the function response pushed to functionResponses
    \* ---- the dispatch of one model turn, step by step
    uPc,           \* "idle" | "seed" | "await" | "next" | "acted" | "settled" |
                   \* "captured" | "done" | "thrown"
    uParts,        \* parts of the model turn
    uIdx,          \* index of the part the for loop is at
    uResult,       \* result of the call being handled
    uResponses,    \* functionResponses, each with the index of its part
    uShot,         \* the screenshot variable: NoShot, 0 (taken before this
                   \* turn) or k (taken after the call of part k)
    uTrace,        \* what the loop did so far, in order
    uUserTurn,     \* the user turn pushed to contents after the parts
    uContents,     \* contents: the conversation sent with each request
    uSeed,         \* contents as it was when the request was sent
    uExit,         \* how the iteration ended: "" | "return" | "break" | "continue"
    uNotice,       \* what the iteration wrote into the assistant message
    uKind,         \* the response: "" | "blocked" | "accepted" | "declined" |
                   \* "content" (the endpoint's confirmation accepted or not)
    \* ---- the MCP client cache and the handlers that touch it
    mcpClientRef,  \* mcpClientRef.current: a client, or NoClient for null
    mcpToolsRef,   \* mcpToolsRef.current: the client whose tools it holds
    mClosed,       \* the clients close() was called on
    mCreated,      \* number of clients created so far
    mLoading,      \* isLoading
    browserToolsEnabled,
    composioApiKey, \* settings.composioApiKey is set
    mHandlers,     \* the running handleSubmit calls: [pc, client, tools]
    ncPc,          \* newChat: "idle" | "closing" | "init" | "done"
    ncOld,         \* the client newChat found in the cache
    tgPc,          \* toggleBrowserTools: "idle" | "closing"
    \* ---- the content script's key_combination action
    kPc,           \* "idle" | "hold" | "release" | "done"
    kKeys,         \* keysList
    kI,            \* the loop variable i (counted from 1)
    kEvents        \* the keyboard events dispatched so far: [type, key]

txVars == <<txPc, txTool, retryCount, txAttempts, txLast, txResult, txAllConn>>
sVars == <<sPc, sFn, sArgs, sPage, sReply, sAnswer, sAsked, sDenied>>
loopVars == <<pc, turn, requests, parts, idx, functionResponses, responseText,
              lastMsg, isLoading, refAborted, reasons, thrown, unanswered,
              denied, sentAfterStop, allCalls>>
scVars == <<scPc, scX, scY, scReply, scOut>>
aVars == <<aPc, aFn, aArgs, aReply, aAnswer, aAsked, aDenied, aPlan, aLog,
           aResult, aDelay, aShot, aFr>>
uConv == <<uContents, uSeed, uExit, uNotice, uKind>>
uVars == <<uPc, uParts, uIdx, uResult, uResponses, uShot, uTrace, uUserTurn,
           uConv>>
mVars == <<mcpClientRef, mcpToolsRef, mClosed, mCreated, mLoading,
           browserToolsEnabled, composioApiKey, mHandlers, ncPc, ncOld, tgPc>>
kVars == <<kPc, kKeys, kI, kEvents>>
auxVars == <<scVars, aVars, uVars, mVars, kVars>>
vars == <<txVars, sVars, loopVars, auxVars>>

(***************************************************************************)
(* Strings.  A message or page string is an enumerated value; includes()   *)
(* is decided by the set of search phrases the string contains.            *)
(***************************************************************************)
ErrRecv == "Receiving end does not exist"
ErrConn == "Could not establish connection"
ErrBoth == "Could not establish connection. Receiving end does not exist."
ErrElem == "Element not found"
ErrPort == "The message port closed before a response was received."

ErrorStrings == {ErrRecv, ErrConn, ErrBoth, ErrElem, ErrPort}

\* The needles of executeTool.handleResponse that a message contains.
ErrPhrases(msg) ==
    CASE msg = ErrRecv -> {ErrRecv}
      [] msg = ErrConn -> {ErrConn}
      [] msg = ErrBoth -> {ErrRecv, ErrConn}
      [] OTHER -> {}

(***************************************************************************)
(* executeTool                                                             *)
(***************************************************************************)
MAX_RETRIES == 3

KnownTools == {"screenshot", "click", "type", "scroll", "getPageContext",
               "navigate", "getBrowserHistory", "pressKey", "clearInput",
               "keyCombo", "hover", "dragDrop"}
ToolNames == KnownTools \cup {"print"}

\* What the sendMessage callback can be handed: a response object with or
\* without an error field, or no response and chrome.runtime.lastError set.
NoResponse == [defined |-> FALSE, error |-> "", lastError |-> ""]
ChannelResponses ==
    [defined : {TRUE}, error : ErrorStrings \cup {""}, lastError : {""}]
    \cup [defined : {FALSE}, error : {""}, lastError : ErrorStrings \cup {""}]

\* response?.error || chrome.runtime.lastError?.message || ''
ErrorMsg(r) ==
    IF r.defined /\ r.error # "" THEN r.error
    ELSE IF r.lastError # "" THEN r.lastError
    ELSE ""

IsConnectionErrorAny(msg) == msg # ""
IsConnectionError(msg) ==
    ErrRecv \in ErrPhrases(msg) \/ ErrConn \in ErrPhrases(msg)

ShouldRetryOff(r, n) == IsConnectionError(ErrorMsg(r)) /\ n <= MAX_RETRIES
ShouldRetry(r, n) == IsConnectionError(ErrorMsg(r)) /\ n < MAX_RETRIES

TxIdle ==
    /\ txPc = "idle" /\ txTool = "" /\ retryCount = 0 /\ txAttempts = 0
    /\ txLast = NoResponse /\ txResult = NoResponse /\ txAllConn = TRUE

\* executeTool(toolName, parameters): the first attempt, or the rejection of
\* a tool name that has no message.
ExecuteTool(t) ==
    /\ txPc = "idle"
    /\ txTool' = t
    /\ IF t \in KnownTools
         THEN /\ txPc' = "sent"
              /\ txAttempts' = txAttempts + 1
         ELSE /\ txPc' = "rejected"
              /\ UNCHANGED txAttempts
    /\ UNCHANGED <<auxVars, sVars, loopVars, retryCount, txLast, txResult, txAllConn>>

\* handleResponse(response)
HandleResponseEager(r) ==
    /\ txPc = "sent"
    /\ txLast' = r
    /\ txAllConn' = (txAllConn /\ IsConnectionError(ErrorMsg(r)))
    /\ IF ShouldRetry(r, retryCount)
         THEN /\ txPc' = "sent"
              /\ retryCount' = retryCount + 1
              /\ txAttempts' = txAttempts + 1
              /\ UNCHANGED txResult
         ELSE /\ txPc' = "resolved"
              /\ txResult' = r
              /\ UNCHANGED <<retryCount, txAttempts>>
    /\ UNCHANGED <<auxVars, sVars, loopVars, txTool>>
HandleResponse(r) ==
    /\ txPc = "sent"
    /\ txLast' = r
    /\ txAllConn' = (txAllConn /\ IsConnectionError(ErrorMsg(r)))
    /\ IF ShouldRetry(r, retryCount)
         THEN /\ txPc' = "delay"
              /\ UNCHANGED txResult
         ELSE /\ txPc' = "resolved"
              /\ txResult' = r
    /\ UNCHANGED <<auxVars, sVars, loopVars, txTool, retryCount, txAttempts>>

\* the setTimeout callback: executeTool(toolName, parameters, retryCount + 1)
RetryTimer ==
    /\ txPc = "delay"
    /\ retryCount' = retryCount + 1
    /\ txAttempts' = txAttempts + 1
    /\ txPc' = "sent"
    /\ UNCHANGED <<auxVars, sVars, loopVars, txTool, txLast, txResult, txAllConn>>

(***************************************************************************)
(* requiresUserConfirmation                                                *)
(***************************************************************************)
\* Page strings: a URL or a visible text is one of a few strings, each
\* standing for "a string in which this phrase occurs".
PageStrings == {"", "welcome", "checkout", "Checkout", "payment", "login",
                "LOGIN", "signin", "admin", "delete", "remove",
                "remove account", "purchase", "confirm order", "credit card",
                "cvv", "social security"}

\* String.prototype.toLowerCase
ToLowerCase(s) ==
    CASE s = "Checkout" -> "checkout"
      [] s = "LOGIN" -> "login"
      [] s = "my Password" -> "my password"
      [] OTHER -> s

\* The search phrases that occur in a string (String.prototype.includes is
\* case-sensitive).
SubPhrases(s) ==
    CASE s = "" -> {}
      [] s = "remove account" -> {"remove account", "remove"}
      [] s = "my password" -> {"password"}
      [] OTHER -> {s}

Includes(s, needle) == needle \in SubPhrases(s)

\* args.text?.match(/\d{4}[\s-]?\d{4}[\s-]?\d{4}[\s-]?\d{4}/)
MatchesCardPattern(s) == s \in {"4111 1111 1111 1111", "4111111111111111"}

NoField == "<undefined>"

\* The truthiness test of if (value)
Truthy(v) == v \notin {"false", "0", "", NoField}

FunctionNames == {"click_at", "navigate", "key_combination", "type_text_at",
                  "type_text", "keyboard_input", "scroll_document",
                  "get_page_info"}

ArgTexts == {NoField, "hello", "my Password", "4111 1111 1111 1111"}
\* args.press_enter is a JSON value: "true" and "false" are the booleans,
\* "1" is a value that is truthy without being the boolean true.
FunctionArgs == [text : ArgTexts, press_enter : {"true", "false", "1"}]

\* The context object the content script answers GET_PAGE_CONTEXT with: the
\* page's URL; the visible text is in its textContent field, it has no text
\* field.
ContentScriptContext(page) ==
    [kind |-> "context", url |-> page.url, text |-> NoField]

\* The PageContext of the backend interface, { url, text, viewport }: the
\* visible text in the text field.
InterfaceContext(page) ==
    [kind |-> "context", url |-> page.url, text |-> page.text]

\* A page-context query that failed: executeTool resolves with the error
\* object or with no response object.
FailedReplies ==
    [kind : {"error", "undefined"}, url : {NoField}, text : {NoField}]

\* What executeTool('getPageContext') can resolve with for a given page.
ContextReplies(page) ==
    {ContentScriptContext(page), InterfaceContext(page)} \cup FailedReplies

\* pageContext?.url?.toLowerCase() || ''
UrlOf(reply) == IF reply.url = NoField THEN "" ELSE ToLowerCase(reply.url)
\* pageContext?.text?.toLowerCase() || ''
PageTextOf(reply) == IF reply.text = NoField THEN "" ELSE ToLowerCase(reply.text)

alwaysConfirm == {"key_combination"}

UrlNeedles == {"checkout", "payment", "login", "signin", "admin", "delete",
               "remove"}
TextNeedles == {"checkout", "payment", "purchase", "confirm order", "delete",
                "remove account"}

IsSensitivePage(url, pageText) ==
    \/ \E n \in UrlNeedles : Includes(url, n)
    \/ \E n \in TextNeedles : Includes(pageText, n)

\* functionName.includes('type')
NameIncludesType(fn) == fn \in {"type", "type_text", "type_text_at"}

IsSensitiveInput(fn, args, pageText) ==
    /\ NameIncludesType(fn)
    /\ \/ (args.text # NoField /\ Includes(ToLowerCase(args.text), "password"))
       \/ (args.text # NoField /\ MatchesCardPattern(args.text))
       \/ Includes(pageText, "credit card")
       \/ Includes(pageText, "cvv")
       \/ Includes(pageText, "social security")

\* functionName === 'type_text_at' && args.press_enter === true
IsFormSubmission(fn, args) == fn = "type_text_at" /\ args.press_enter = "true"

\* The condition under which window.confirm is shown.
ConfirmationRequired(fn, args, reply) ==
    \/ fn \in alwaysConfirm
    \/ IsSensitivePage(UrlOf(reply), PageTextOf(reply))
    \/ IsSensitiveInput(fn, args, PageTextOf(reply))
    \/ IsFormSubmission(fn, args)

\* requiresUserConfirmation(functionName, args): asked = the dialog was shown,
\* denied = the returned value (!window.confirm(...), or false).
RequiresUserConfirmation(fn, args, reply, answer) ==
    IF ConfirmationRequired(fn, args, reply)
      THEN [asked |-> TRUE, denied |-> ~answer]
      ELSE [asked |-> FALSE, denied |-> FALSE]

SIdle ==
    /\ sPc = "idle" /\ sFn = "" /\ sArgs = [text |-> NoField, press_enter |-> "false"]
    /\ sPage = [url |-> "", text |-> ""]
    /\ sReply = [kind |-> "undefined", url |-> NoField, text |-> NoField]
    /\ sAnswer = FALSE /\ sAsked = FALSE /\ sDenied = FALSE

\* One call of requiresUserConfirmation on the inputs drawn by the initial state.
Evaluate ==
    /\ sPc = "input"
    /\ LET r == RequiresUserConfirmation(sFn, sArgs, sReply, sAnswer)
       IN /\ sAsked' = r.asked
          /\ sDenied' = r.denied
    /\ sPc' = "done"
    /\ UNCHANGED <<auxVars, txVars, loopVars, sFn, sArgs, sPage, sReply, sAnswer>>

(***************************************************************************)
(* streamWithGeminiComputerUse, handleSubmit, stop                         *)
(***************************************************************************)
maxTurns == 30
MaxParts == 2

LoopFunctionNames == {"click_at", "key_combination"}

\* A part of candidate.content.parts: text is "part.text is truthy", call is
\* the name of part.functionCall or "none".
Parts ==
    {[text |-> TRUE, call |-> "none"],
     [text |-> FALSE, call |-> "click_at"],
     [text |-> FALSE, call |-> "key_combination"],
     [text |-> TRUE, call |-> "click_at"]}

RECURSIVE SeqsUpTo(_, _)
SeqsUpTo(S, n) ==
    IF n = 0 THEN {<<>>}
    ELSE LET shorter == SeqsUpTo(S, n - 1)
         IN shorter \cup {Append(q, x) : q \in {r \in shorter : Len(r) = n - 1}, x \in S}

ModelTurns == SeqsUpTo(Parts, MaxParts)

\* What one generateContent round trip can end in (the 60 s timer is its own
\* action): fetch rejects, a non-OK status, a body that is no JSON, a prompt
\* block, no candidate, the endpoint's confirmation marker, a model turn.
ResponseKinds == {"network", "notOk", "badJson", "blocked", "noCandidate",
                  "confirm", "content"}

\* What executeBrowserAction can return once the safety check let it run:
\* nothing (the channel handed no response object), or an object whose
\* success field is true, absent or false.
ActionResults == {"undefined", "success", "noSuccessField", "failure"}

\* Pages the loop's safety check meets.
LoopReplies ==
    {[kind |-> "context", url |-> "welcome", text |-> NoField],
     [kind |-> "context", url |-> "checkout", text |-> NoField],
     [kind |-> "undefined", url |-> NoField, text |-> NoField]}
NoArgs == [text |-> NoField, press_enter |-> "false"]

\* parts.some(p => p.functionCall)
HasFunctionCalls(ps) == \E i \in 1..Len(ps) : ps[i].call # "none"

\* The branch the dispatch loop takes for a part: if (part.text) ... else if
\* (part.functionCall) ...
PartBranch(p) ==
    IF p.text THEN "text" ELSE IF p.call # "none" THEN "call" ELSE "skip"

RECURSIVE CallNames(_)
\* Names of the functionCall parts of a model turn, in order.
CallNames(ps) ==
    IF ps = <<>> THEN <<>>
    ELSE IF Head(ps).call # "none" THEN <<Head(ps).call>> \o CallNames(Tail(ps))
    ELSE CallNames(Tail(ps))

\* The user turn pushed after a model turn answers each of its calls by name.
Answered(ps, frs) == CallNames(ps) = frs

\* The loop header: turn < maxTurns
LoopContinuesOff(t) == t <= maxTurns
LoopContinues(t) == t < maxTurns

\* lastMsg.content = responseText || 'Task completed'
FinalContentOff(rt) == rt
FinalContent(rt) == IF rt = {} THEN {"taskCompleted"} ELSE rt

NoThrow == [name |-> "", at |-> ""]

LoopIdle ==
    /\ pc = "idle" /\ turn = 0 /\ requests = 0 /\ parts = <<>> /\ idx = 1
    /\ functionResponses = <<>> /\ responseText = {}
    /\ lastMsg = [role |-> "none", content |-> {}]
    /\ isLoading = FALSE /\ refAborted = FALSE /\ reasons = {}
    /\ thrown = NoThrow
    /\ unanswered = FALSE /\ denied = FALSE
    /\ sentAfterStop = FALSE /\ allCalls = TRUE

\* The catch block of handleSubmit for an error thrown out of the loop.
Fatal(errorName, at) ==
    /\ pc' = "done"
    /\ thrown' = [name |-> errorName, at |-> at]
    /\ reasons' = reasons \cup {"fatalError"}
    /\ lastMsg' = IF errorName # "AbortError"
                    THEN [role |-> "assistant", content |-> {"error"}]
                    ELSE lastMsg
    /\ isLoading' = FALSE

\* Leaving the for loop (break or exhausted header): the final update, then
\* handleSubmit's setIsLoading(false).
FinalUpdate(reason, rt) ==
    /\ pc' = "done"
    /\ reasons' = reasons \cup {reason}
    /\ lastMsg' = [lastMsg EXCEPT !.content = FinalContent(rt)]
    /\ isLoading' = FALSE

\* turn++ and the loop header.
NextIteration(rt) ==
    /\ turn' = turn + 1
    /\ IF LoopContinues(turn + 1)
         THEN /\ pc' = "fetch"
              /\ UNCHANGED <<reasons, lastMsg, isLoading>>
         ELSE FinalUpdate("maxTurnsReached", rt)

\* handleSubmit in browser-tools mode up to the agent loop: the user message,
\* a fresh abort controller, the empty assistant message, the first screenshot.
SubmitThenRequest(shotOk) ==
    /\ pc = "idle" /\ ~isLoading
    /\ refAborted' = FALSE
    /\ pc' = "fetch"
    /\ isLoading' = TRUE
    /\ IF shotOk
         THEN /\ lastMsg' = [role |-> "assistant", content |-> {}]
              /\ UNCHANGED <<reasons, thrown>>
         ELSE /\ lastMsg' = [role |-> "assistant", content |-> {"error"}]
              /\ thrown' = [name |-> "Error", at |-> "screenshot"]
              /\ reasons' = reasons \cup {"fatalError"}
    /\ UNCHANGED <<auxVars, txVars, sVars, turn, requests, parts, idx,
                   functionResponses, responseText, unanswered, denied,
                   sentAfterStop, allCalls>>
Submit(shotOk) ==
    /\ pc = "idle" /\ ~isLoading
    /\ refAborted' = FALSE
    /\ IF shotOk
         THEN /\ pc' = "fetch"
              /\ lastMsg' = [role |-> "assistant", content |-> {}]
              /\ isLoading' = TRUE
              /\ UNCHANGED <<reasons, thrown>>
         ELSE Fatal("Error", "screenshot")
    /\ UNCHANGED <<auxVars, txVars, sVars, turn, requests, parts, idx, functionResponses, responseText,
                   unanswered, denied, sentAfterStop, allCalls>>

\* The fetch call of one loop iteration, under its own AbortController.
SendRequest ==
    /\ pc = "fetch"
    /\ pc' = "await"
    /\ requests' = requests + 1
    /\ sentAfterStop' = (sentAfterStop \/ refAborted)
    /\ UNCHANGED <<auxVars, txVars, sVars, thrown, turn, parts, idx, functionResponses, responseText, lastMsg,
                   isLoading, refAborted, reasons, unanswered, denied, allCalls>>

\* The 60 s timer fires: abortController.abort(), fetch rejects with AbortError.
RequestTimeout ==
    /\ pc = "await"
    /\ Fatal("AbortError", "request")
    /\ UNCHANGED <<auxVars, txVars, sVars, turn, requests, parts, idx, functionResponses, responseText,
                   refAborted, unanswered, denied, sentAfterStop, allCalls>>

\* The request fails or its answer is unusable: an Error other than AbortError
\* is thrown out of the loop.
ReceiveError(kind) ==
    /\ pc = "await"
    /\ kind \in {"network", "notOk", "badJson", "noCandidate"}
    /\ Fatal(IF kind = "network" THEN "TypeError"
             ELSE IF kind = "badJson" THEN "SyntaxError" ELSE "Error", "request")
    /\ UNCHANGED <<auxVars, txVars, sVars, turn, requests, parts, idx, functionResponses, responseText,
                   refAborted, unanswered, denied, sentAfterStop, allCalls>>

\* data.promptFeedback.blockReason is set.
ReceiveBlocked ==
    /\ pc = "await"
    /\ pc' = "done"
    /\ reasons' = reasons \cup {"blockedBySafetyFilter"}
    /\ lastMsg' = [lastMsg EXCEPT !.content = {"blockNotice"}]
    /\ isLoading' = FALSE
    /\ allCalls' = FALSE
    /\ UNCHANGED <<auxVars, txVars, sVars, thrown, turn, requests, parts, idx, functionResponses, responseText,
                   refAborted, unanswered, denied, sentAfterStop>>

\* candidate.safetyResponse.requireConfirmation is set: window.confirm.
ReceiveConfirm(userConfirmed) ==
    /\ pc = "await"
    /\ allCalls' = FALSE
    /\ IF userConfirmed
         THEN NextIteration(responseText)
         ELSE /\ pc' = "done"
              /\ reasons' = reasons \cup {"cancelledByUser"}
              /\ lastMsg' = [lastMsg EXCEPT
                               !.content = lastMsg.content \cup {"cancelNotice"}]
              /\ isLoading' = FALSE
              /\ UNCHANGED turn
    /\ UNCHANGED <<auxVars, txVars, sVars, thrown, requests, parts, idx, functionResponses, responseText,
                   refAborted, unanswered, denied, sentAfterStop>>

\* A candidate with content: pushed to contents; without function calls the
\* text is accumulated and the loop is left, otherwise dispatch starts.
ReceiveContent(ps) ==
    /\ pc = "await"
    /\ IF HasFunctionCalls(ps)
         THEN /\ pc' = "dispatch"
              /\ parts' = ps
              /\ idx' = 1
              /\ functionResponses' = <<>>
              /\ UNCHANGED <<responseText, reasons, lastMsg, isLoading, allCalls>>
         ELSE LET rt == IF \E i \in 1..Len(ps) : ps[i].text
                          THEN responseText \cup {"final"} ELSE responseText
              IN /\ responseText' = rt
                 /\ FinalUpdate("completed", rt)
                 /\ allCalls' = FALSE
                 /\ UNCHANGED <<parts, idx, functionResponses>>
    /\ UNCHANGED <<auxVars, txVars, sVars, thrown, turn, requests, refAborted, unanswered, denied, sentAfterStop>>

\* One iteration of "for (const part of parts)" that executes no call: a part
\* with text is accumulated, a part with neither text nor call is passed over.
DispatchText ==
    /\ pc = "dispatch" /\ idx <= Len(parts)
    /\ PartBranch(parts[idx]) # "call"
    /\ responseText' = IF PartBranch(parts[idx]) = "text"
                         THEN responseText \cup {"text"} ELSE responseText
    /\ idx' = idx + 1
    /\ UNCHANGED <<auxVars, txVars, sVars, thrown, pc, turn, requests, parts, functionResponses,
                   lastMsg, isLoading, refAborted, reasons, unanswered, denied,
                   sentAfterStop, allCalls>>

\* One iteration that executes a function call: executeBrowserAction (safety
\* check, then the action), the settle delay, the screenshot, the page-context
\* query, the function response and the UI update.
DispatchCall(reply, answer, result) ==
    /\ pc = "dispatch" /\ idx <= Len(parts)
    /\ PartBranch(parts[idx]) = "call"
    /\ LET p == parts[idx]
           check == RequiresUserConfirmation(p.call, NoArgs, reply, answer)
           rt == responseText \cup {"exec"}
       IN /\ responseText' = rt
          /\ denied' = (denied \/ check.denied)
          /\ IF ~check.denied /\ result = "undefined"
               THEN \* result.success throws a TypeError
                    /\ Fatal("TypeError", "dispatch")
                    /\ parts' = <<>> /\ idx' = 1
                    /\ functionResponses' = <<>>
               ELSE /\ functionResponses' = Append(functionResponses, p.call)
                    /\ lastMsg' = [lastMsg EXCEPT !.content = rt]
                    /\ idx' = idx + 1
                    /\ UNCHANGED <<pc, reasons, thrown, isLoading, parts>>
    /\ UNCHANGED <<auxVars, txVars, sVars, turn, requests, refAborted, unanswered,
                   sentAfterStop, allCalls>>

\* After the last part: the user turn with the function responses is pushed
\* when there is one, then turn++.
EndTurn ==
    /\ pc = "dispatch" /\ idx > Len(parts)
    /\ unanswered' = (unanswered \/ ~Answered(parts, functionResponses))
    /\ NextIteration(responseText)
    /\ parts' = <<>> /\ idx' = 1 /\ functionResponses' = <<>>
    /\ UNCHANGED <<auxVars, txVars, sVars, thrown, requests, responseText, refAborted, denied,
                   sentAfterStop, allCalls>>

\* stop(): the stop button is shown while isLoading.
Stop ==
    /\ isLoading /\ pc \in {"fetch", "await", "dispatch"}
    /\ refAborted' = TRUE
    /\ isLoading' = FALSE
    /\ UNCHANGED <<auxVars, txVars, sVars, thrown, pc, turn, requests, parts, idx, functionResponses, responseText,
                   lastMsg, reasons, unanswered, denied, sentAfterStop, allCalls>>

(***************************************************************************)
(* scaleCoordinates                                                        *)
(***************************************************************************)
\* Gemini's normalized grid: coordinates are 0..NormalizedMax on both axes.
NormalizedMax == 1000
DefaultViewportWidth == 1440
DefaultViewportHeight == 900

\* Viewports a page reports (window.innerWidth x window.innerHeight).
Viewports == {[width |-> 1440, height |-> 900],
              [width |-> 1920, height |-> 1080],
              [width |-> 1366, height |-> 768],
              [width |-> 1000, height |-> 1000]}
NoViewport == [width |-> 0, height |-> 0]

\* What executeTool('getPageContext', {}) ends in: a context with its
\* viewport, an object without a viewport field, the error object of a failed
\* query, no response object, or a rejection because sendMessage raised.
\* hasViewport tells whether pageInfo?.viewport is defined.
ScaleReplies ==
    [kind : {"context"}, hasViewport : {TRUE}, viewport : Viewports]
    \cup [kind : {"context", "error", "undefined", "throws"},
          hasViewport : {FALSE}, viewport : {NoViewport}]

\* pageInfo?.viewport?.width || 1440
ViewportWidthOff(reply) ==
    IF reply.hasViewport /\ reply.viewport.width # 0
      THEN reply.viewport.width ELSE NormalizedMax
ViewportWidth(reply) ==
    IF reply.hasViewport /\ reply.viewport.width # 0
      THEN reply.viewport.width ELSE DefaultViewportWidth

\* pageInfo?.viewport?.height || 900
ViewportHeight(reply) ==
    IF reply.hasViewport /\ reply.viewport.height # 0
      THEN reply.viewport.height ELSE DefaultViewportHeight

\* Math.round of the rational num / den (num >= 0): floor(num / den + 1/2).
MathRound(num, den) == (2 * num + den) \div (2 * den)

\* (c / 1000) * d is evaluated in IEEE-754 doubles: c / 1000 is rounded to a
\* double first, so the product can fall just below the exact c * d / 1000.
\* The pairs <<c, d>>, c in 0..1000 and d a dimension of the model, for which
\* the exact value is k + 1/2 and the double product is below it.
ProductBelowTie == {<<565, 900>>}

\* Math.round((c / 1000) * d)
ScaleAxis(c, d) ==
    IF <<c, d>> \in ProductBelowTie
      THEN (c * d) \div NormalizedMax
      ELSE MathRound(c * d, NormalizedMax)

\* scaleCoordinates(x, y): the try block, or the catch block when the query
\* rejects.
ScaleCoordinates(x, y, reply) ==
    IF reply.kind = "throws"
      THEN [x |-> x, y |-> y]
      ELSE [x |-> ScaleAxis(x, ViewportWidth(reply)),
            y |-> ScaleAxis(y, ViewportHeight(reply))]

\* The y arguments of the model; x ranges over the whole grid.
YSamples == {0, 1, 300, 500, 565, 999, 1000}

ScIdle ==
    /\ scPc = "idle" /\ scX = 0 /\ scY = 0
    /\ scReply = [kind |-> "undefined", hasViewport |-> FALSE,
                  viewport |-> NoViewport]
    /\ scOut = [x |-> 0, y |-> 0]


\* One call of scaleCoordinates on the inputs drawn by the initial state.
Scale ==
    /\ scPc = "input"
    /\ scOut' = ScaleCoordinates(scX, scY, scReply)
    /\ scPc' = "done"
    /\ UNCHANGED <<txVars, sVars, loopVars, kVars, mVars, aVars, uVars, scX, scY, scReply>>

(***************************************************************************)
(* executeBrowserAction and the loop's handling of one function call       *)
(***************************************************************************)
\* The case labels of the switch.
KnownFunctions ==
    {"click", "click_at", "mouse_click",
     "type", "type_text", "keyboard_input", "input_text",
     "scroll", "scroll_down", "scroll_up", "mouse_scroll",
     "navigate", "open_web_browser", "navigate_to", "go_to",
     "get_screenshot", "take_screenshot", "screenshot",
     "get_page_info", "get_url", "get_page_content",
     "wait", "sleep", "delay", "press_key", "key_press", "type_text_at",
     "key_combination", "hover_at", "scroll_document", "scroll_at",
     "wait_5_seconds", "go_back", "back", "go_forward", "forward", "search",
     "drag_and_drop"}

\* Names the model can emit: the case labels and one name that is none.
ActionNames == KnownFunctions \cup {"double_click"}

\* The coordinates the model emits (on its 0..1000 grid).
ModelPoint == [x |-> 500, y |-> 565, destination_x |-> 800,
               destination_y |-> 300]

\* args: hasXY is "args.x and args.y are defined", clear is
\* "args.clear_before_typing !== false".
ActionArgs == [text : {"hello"}, press_enter : {"true", "false", "1"},
               hasXY : BOOLEAN,
               clear : BOOLEAN]

\* What the page-context queries of one call resolve with.
ActionReplies ==
    {[kind |-> "context", url |-> "welcome", text |-> NoField,
      hasViewport |-> TRUE, viewport |-> [width |-> 1440, height |-> 900]],
     [kind |-> "context", url |-> "checkout", text |-> NoField,
      hasViewport |-> TRUE, viewport |-> [width |-> 1920, height |-> 1080]],
     [kind |-> "undefined", url |-> NoField, text |-> NoField,
      hasViewport |-> FALSE, viewport |-> NoViewport]}

\* What the backend hands to the callback of a message, for executeTool at its
\* last attempt: success, a failure object, an object with the connection
\* error in its error field, or no response with the error in lastError.
NoOutcome == [defined |-> FALSE, success |-> "absent", error |-> "",
              lastError |-> ""]
ToolOutcomes ==
    {[defined |-> TRUE, success |-> "true", error |-> "", lastError |-> ""],
     [defined |-> TRUE, success |-> "false", error |-> ErrElem, lastError |-> ""],
     [defined |-> TRUE, success |-> "absent", error |-> ErrRecv, lastError |-> ""],
     [defined |-> FALSE, success |-> "absent", error |-> "", lastError |-> ErrRecv]}

\* resolve(response): the response object, or undefined.
Resolved(o) == [defined |-> o.defined, success |-> o.success, error |-> o.error]

UndefinedResult == [defined |-> FALSE, success |-> "absent", error |-> ""]
CancelledResult ==
    [defined |-> TRUE, success |-> "false", error |-> "Action cancelled by user"]

\* The toolName of the single executeTool call a function name stands for.
CanonicalToolOff(fn) == "navigate"
CanonicalTool(fn) ==
    CASE fn \in {"click", "click_at", "mouse_click"} -> "click"
      [] fn \in {"type", "type_text", "keyboard_input", "input_text",
                 "press_key", "key_press"} -> "type"
      [] fn \in {"scroll", "scroll_down", "scroll_up", "mouse_scroll",
                 "scroll_document", "scroll_at"} -> "scroll"
      [] fn \in {"navigate", "open_web_browser", "navigate_to", "go_to",
                 "search"} -> "navigate"
      [] fn \in {"get_screenshot", "take_screenshot", "screenshot"} ->
           "screenshot"
      [] fn \in {"get_page_info", "get_url", "get_page_content"} ->
           "getPageContext"
      [] fn = "key_combination" -> "keyCombo"
      [] fn = "hover_at" -> "hover"
      [] fn = "drag_and_drop" -> "dragDrop"
      [] OTHER -> "none"

\* How a function's coordinates reach its message: through scaleCoordinates,
\* as they are, or not at all.
CoordsMode(fn) ==
    CASE fn \in {"click", "click_at", "mouse_click", "hover_at"} -> "scaled"
      [] fn = "drag_and_drop" -> "raw"
      [] OTHER -> "none"

\* A backend step: via is "executeTool", "sendMessage" (a bare
\* chrome.runtime.sendMessage) or "tabs" (chrome.tabs, not awaited); returned
\* tells that the step's result is the function's return value.
Step(tool, via, coords, param, returned) ==
    [tool |-> tool, via |-> via, coords |-> coords, param |-> param,
     returned |-> returned]

\* The backend steps of executeBrowserAction's switch, in order.
PlanTypeFirst(fn, args) ==
    <<Step("keyboard_type", "sendMessage", "none", "", TRUE),
      Step("click", "executeTool", "scaled", "", FALSE)>>
Plan(fn, args) ==
    CASE fn = "type_text_at" ->
           (IF args.hasXY
              THEN <<Step("click", "executeTool", "scaled", "", FALSE)>>
              ELSE <<>>)
           \o (IF args.clear
                 THEN <<Step("keyCombo", "executeTool", "none", "select-all", FALSE),
                        Step("pressKey", "executeTool", "none", "Delete", FALSE)>>
                 ELSE <<>>)
           \o <<Step("keyboard_type", "sendMessage", "none", "", TRUE)>>
           \o (IF Truthy(args.press_enter)
                 THEN <<Step("pressKey", "executeTool", "none", "Enter", FALSE)>>
                 ELSE <<>>)
      [] fn \in {"go_back", "back"} ->
           <<Step("goBack", "tabs", "none", "", FALSE)>>
      [] fn \in {"go_forward", "forward"} ->
           <<Step("goForward", "tabs", "none", "", FALSE)>>
      [] CanonicalTool(fn) # "none" ->
           <<Step(CanonicalTool(fn), "executeTool", CoordsMode(fn), "", TRUE)>>
      [] OTHER -> <<>>

\* The value returned when no step's result is: the wait and history cases,
\* and the default case.
LocalResultOff(fn) == [defined |-> TRUE, success |-> "true", error |-> ""]
LocalResult(fn) ==
    IF fn \in KnownFunctions
      THEN [defined |-> TRUE, success |-> "true", error |-> ""]
      ELSE [defined |-> TRUE, success |-> "false", error |-> "Unknown function"]

\* The message a step sends.  A scaled step sends scaleCoordinates of the
\* model's point (of 0, 0 when args has none); a raw step sends the args
\* fields as they are; -1 is an absent field.
Message(step, args, reply, outcome) ==
    LET px == IF args.hasXY THEN ModelPoint.x ELSE 0
        py == IF args.hasXY THEN ModelPoint.y ELSE 0
        scaled == ScaleCoordinates(px, py, reply)
        raw == step.coords = "raw" /\ args.hasXY
    IN [tool |-> step.tool, via |-> step.via, param |-> step.param,
        returned |-> step.returned, outcome |-> outcome,
        x |-> CASE step.coords = "scaled" -> scaled.x
                [] raw -> ModelPoint.x
                [] OTHER -> -1,
        y |-> CASE step.coords = "scaled" -> scaled.y
                [] raw -> ModelPoint.y
                [] OTHER -> -1,
        destination_x |-> IF raw THEN ModelPoint.destination_x ELSE -1,
        destination_y |-> IF raw THEN ModelPoint.destination_y ELSE -1]

\* The loop's isNavigationAction list and its two settle delays.
NavigationActions == {"navigate", "open_web_browser", "navigate_to", "go_to",
                      "click", "click_at", "mouse_click"}
SettleDelay(fn) == IF fn \in NavigationActions THEN 2500 ELSE 500

\* success: result.success !== false
SuccessFlagStrict(result) == result.success = "true"
SuccessFlag(result) == result.success # "false"

NoFunctionResponse == [pushed |-> FALSE, name |-> "", success |-> FALSE,
                       error |-> ""]

AIdle ==
    /\ aPc = "idle" /\ aFn = ""
    /\ aArgs = [text |-> "hello", press_enter |-> "false", hasXY |-> FALSE,
                clear |-> FALSE]
    /\ aReply = [kind |-> "undefined", url |-> NoField, text |-> NoField,
                 hasViewport |-> FALSE, viewport |-> NoViewport]
    /\ aAnswer = FALSE /\ aAsked = FALSE /\ aDenied = FALSE
    /\ aPlan = <<>> /\ aLog = <<>> /\ aResult = UndefinedResult
    /\ aDelay = 0 /\ aShot = "none" /\ aFr = NoFunctionResponse


\* executeBrowserAction up to the switch: requiresUserConfirmation, and the
\* early return when it answers true.
SafetyCheckThrough ==
    /\ aPc = "check"
    /\ LET check == RequiresUserConfirmation(aFn, aArgs, aReply, aAnswer)
       IN /\ aAsked' = check.asked
          /\ aDenied' = check.denied
    /\ aPc' = "run"
    /\ aPlan' = Plan(aFn, aArgs)
    /\ UNCHANGED <<txVars, sVars, loopVars, kVars, mVars, scVars, uVars, aFn, aArgs,
                   aReply, aAnswer, aLog, aResult, aDelay, aShot, aFr>>
SafetyCheck ==
    /\ aPc = "check"
    /\ LET check == RequiresUserConfirmation(aFn, aArgs, aReply, aAnswer)
       IN /\ aAsked' = check.asked
          /\ aDenied' = check.denied
          /\ IF check.denied
               THEN /\ aPc' = "returned"
                    /\ aResult' = CancelledResult
                    /\ UNCHANGED aPlan
               ELSE /\ aPc' = "run"
                    /\ aPlan' = Plan(aFn, aArgs)
                    /\ UNCHANGED aResult
    /\ UNCHANGED <<txVars, sVars, loopVars, kVars, mVars, scVars, uVars, aFn, aArgs, aReply,
                   aAnswer, aLog, aDelay, aShot, aFr>>

\* The next backend step of the switch case: the message is sent and answered;
\* a chrome.tabs call is not awaited and its outcome is not seen.
BackendStep(outcome) ==
    /\ aPc = "run" /\ aPlan # <<>>
    /\ LET step == Head(aPlan)
       IN /\ (step.via = "tabs") => (outcome = NoOutcome)
          /\ aLog' = Append(aLog, Message(step, aArgs, aReply, outcome))
          /\ aResult' = IF step.returned THEN Resolved(outcome) ELSE aResult
    /\ aPlan' = Tail(aPlan)
    /\ UNCHANGED <<txVars, sVars, loopVars, kVars, mVars, scVars, uVars, aPc, aFn, aArgs, aReply,
                   aAnswer, aAsked, aDenied, aDelay, aShot, aFr>>

\* The return statement of the switch case: the result of the step it
\* returns, or the object the case builds itself.
Return ==
    /\ aPc = "run" /\ aPlan = <<>>
    /\ aPc' = "returned"
    /\ aResult' = IF \E i \in 1..Len(aLog) : aLog[i].returned
                    THEN aResult ELSE LocalResult(aFn)
    /\ UNCHANGED <<txVars, sVars, loopVars, kVars, mVars, scVars, uVars, aFn, aArgs, aReply,
                   aAnswer, aAsked, aDenied, aPlan, aLog, aDelay, aShot, aFr>>

\* The loop after executeBrowserAction returned: the settle delay, the
\* screenshot, the page-context query and the function response;
\* result.success throws a TypeError when result is undefined.
Respond(shotOk) ==
    /\ aPc = "returned"
    /\ aDelay' = SettleDelay(aFn)
    /\ aShot' = IF shotOk THEN "ok" ELSE "failed"
    /\ IF aResult.defined
         THEN /\ aPc' = "responded"
              /\ aFr' = [pushed |-> TRUE, name |-> aFn,
                         success |-> SuccessFlag(aResult),
                         error |-> aResult.error]
         ELSE /\ aPc' = "thrown"
              /\ UNCHANGED aFr
    /\ UNCHANGED <<txVars, sVars, loopVars, kVars, mVars, scVars, uVars, aFn, aArgs, aReply,
                   aAnswer, aAsked, aDenied, aPlan, aLog, aResult>>

(***************************************************************************)
(* The dispatch of one model turn ("for (const part of parts)"), one await *)
(* at a time                                                               *)
(***************************************************************************)
\* screenshot = { screenshot: '' }
NoShot == -1

NoUserTurn == [pushed |-> FALSE, responses |-> <<>>, image |-> NoShot]

\* contents.push(turn)
PushOver(conv, t) ==
    IF conv = <<>> THEN <<t>> ELSE [conv EXCEPT ![Len(conv)] = t]
Push(conv, t) == Append(conv, t)

\* The conversations a request is sent with: the seeded history alone, or
\* followed by what earlier iterations appended.
Histories == {<<"user">>, <<"user", "model", "user">>}
Appendices == {<<"model", "functionResponses">>, <<"confirmed">>, <<"model">>}

\* functionResponses.push(functionResponse)
PushResponseFront(frs, fr) == <<fr>> \o frs
PushResponse(frs, fr) == Append(frs, fr)

\* The user turn: a function_response part per function response, then the
\* inline_data part when screenshot.screenshot is truthy.
UserTurnNoImage(frs, shot) ==
    [pushed |-> TRUE, responses |-> frs, image |-> NoShot]
UserTurn(frs, shot) ==
    [pushed |-> TRUE, responses |-> frs, image |-> shot]

Event(ev, part, info) == [ev |-> ev, part |-> part, info |-> info]

UIdle ==
    /\ uPc = "idle" /\ uParts = <<>> /\ uIdx = 1 /\ uResult = "none"
    /\ uResponses = <<>> /\ uShot = 0 /\ uTrace = <<>>
    /\ uUserTurn = NoUserTurn
    /\ uContents = <<>> /\ uSeed = <<>> /\ uExit = "" /\ uNotice = ""
    /\ uKind = ""

MaxClients == 2
MaxHandlers == 2
Handlers == 1..MaxHandlers
NoClient == 0
\* signal: the handler's AbortController is abortControllerRef.current
IdleHandler == [pc |-> "idle", client |-> NoClient, tools |-> NoClient,
                signal |-> FALSE]

MIdle ==
    /\ mcpClientRef = NoClient /\ mcpToolsRef = NoClient
    /\ mClosed = {} /\ mCreated = 0 /\ mLoading = FALSE
    /\ browserToolsEnabled = FALSE /\ composioApiKey = FALSE
    /\ mHandlers = [s \in Handlers |-> IdleHandler]
    /\ ncPc = "idle" /\ ncOld = NoClient /\ tgPc = "idle"

KIdle == kPc = "idle" /\ kKeys = <<>> /\ kI = 1 /\ kEvents = <<>>

AuxIdle == ScIdle /\ AIdle /\ UIdle /\ MIdle /\ KIdle

\* A part that executes no call.
TurnText ==
    /\ uPc = "next" /\ uIdx <= Len(uParts)
    /\ PartBranch(uParts[uIdx]) # "call"
    /\ uIdx' = uIdx + 1
    /\ UNCHANGED <<txVars, sVars, loopVars, kVars, mVars, scVars, aVars, uConv, uPc, uParts,
                   uResult, uResponses, uShot, uTrace, uUserTurn>>

\* result = await executeBrowserAction(funcName, funcArgs); a call the user
\* denied returns a failure object.
TurnAct(result) ==
    /\ uPc = "next" /\ uIdx <= Len(uParts)
    /\ PartBranch(uParts[uIdx]) = "call"
    /\ uResult' = result
    /\ uTrace' = Append(uTrace, Event("action", uIdx, result))
    /\ uPc' = "acted"
    /\ UNCHANGED <<txVars, sVars, loopVars, kVars, mVars, scVars, aVars, uConv, uParts, uIdx,
                   uResponses, uShot, uUserTurn>>

\* The settle delay has elapsed.
TurnSettle ==
    /\ uPc = "acted"
    /\ uTrace' = Append(uTrace, Event("settled", uIdx, ""))
    /\ uPc' = "settled"
    /\ UNCHANGED <<txVars, sVars, loopVars, kVars, mVars, scVars, aVars, uConv, uParts, uIdx,
                   uResult, uResponses, uShot, uUserTurn>>

\* screenshot = await executeTool('screenshot', {}), replaced by
\* { screenshot: '' } when it brought no image.
TurnCapture(shotOk) ==
    /\ uPc = "settled"
    /\ uShot' = IF shotOk THEN uIdx ELSE NoShot
    /\ uTrace' = Append(uTrace, Event("screenshot", uIdx,
                                      IF shotOk THEN "ok" ELSE "failed"))
    /\ uPc' = "captured"
    /\ UNCHANGED <<txVars, sVars, loopVars, kVars, mVars, scVars, aVars, uConv, uParts, uIdx,
                   uResult, uResponses, uUserTurn>>

\* The page-context query and the function response; result.success throws a
\* TypeError when result is undefined.
TurnRespond ==
    /\ uPc = "captured"
    /\ IF uResult = "undefined"
         THEN /\ uPc' = "thrown"
              /\ UNCHANGED <<uResponses, uTrace, uIdx>>
         ELSE /\ uResponses' =
                   PushResponse(uResponses,
                                [name |-> uParts[uIdx].call,
                                 success |-> (uResult # "failure"),
                                 part |-> uIdx])
              /\ uTrace' = Append(uTrace, Event("response", uIdx, ""))
              /\ uIdx' = uIdx + 1
              /\ uPc' = "next"
    /\ UNCHANGED <<txVars, sVars, loopVars, kVars, mVars, scVars, aVars, uConv, uParts, uResult,
                   uShot, uUserTurn>>

\* After the last part: contents.push of the user turn when there is a
\* function response; the loop goes on with turn++.
TurnEnd ==
    /\ uPc = "next" /\ uIdx > Len(uParts)
    /\ IF uResponses # <<>>
         THEN /\ uUserTurn' = UserTurn(uResponses, uShot)
              /\ uContents' = Push(uContents, "functionResponses")
         ELSE UNCHANGED <<uUserTurn, uContents>>
    /\ uExit' = "continue"
    /\ uPc' = "done"
    /\ UNCHANGED <<txVars, sVars, loopVars, kVars, mVars, scVars, aVars, uParts, uIdx,
                   uResult, uResponses, uShot, uTrace, uSeed, uNotice, uKind>>

\* Before the loop: the screenshot is attached to the latest user turn of
\* the contents built from the message history; then the first request.
TurnSeed ==
    /\ uPc = "seed"
    /\ uContents' = [uContents EXCEPT ![Len(uContents)] = "userImage"]
    /\ uSeed' = uContents'
    /\ uPc' = "await"
    /\ UNCHANGED <<txVars, sVars, loopVars, kVars, mVars, scVars, aVars, uParts, uIdx,
                   uResult, uResponses, uShot, uTrace, uUserTurn, uExit,
                   uNotice, uKind>>

\* data.promptFeedback.blockReason is set: the notice with the reason, return.
TurnBlockedRetry ==
    /\ uPc = "await"
    /\ uKind' = "blocked"
    /\ uNotice' = "blockNotice"
    /\ uContents' = Push(uContents, "model")
    /\ uExit' = "continue"
    /\ uPc' = "done"
    /\ UNCHANGED <<txVars, sVars, loopVars, kVars, mVars, scVars, aVars, uParts, uIdx,
                   uResult, uResponses, uShot, uTrace, uUserTurn, uSeed>>
TurnBlocked ==
    /\ uPc = "await"
    /\ uKind' = "blocked"
    /\ uNotice' = "blockNotice"
    /\ uExit' = "return"
    /\ uPc' = "done"
    /\ UNCHANGED <<txVars, sVars, loopVars, kVars, mVars, scVars, aVars, uParts, uIdx,
                   uResult, uResponses, uShot, uTrace, uUserTurn, uContents,
                   uSeed>>

\* candidate.safetyResponse.requireConfirmation is set: window.confirm, then
\* the CONFIRMED user turn and continue, or the cancellation notice and return.
TurnConfirm(userConfirmed) ==
    /\ uPc = "await"
    /\ uKind' = IF userConfirmed THEN "accepted" ELSE "declined"
    /\ IF userConfirmed
         THEN /\ uContents' = Push(uContents, "confirmed")
              /\ uExit' = "continue"
              /\ UNCHANGED uNotice
         ELSE /\ uNotice' = "cancelNotice"
              /\ uExit' = "return"
              /\ UNCHANGED uContents
    /\ uPc' = "done"
    /\ UNCHANGED <<txVars, sVars, loopVars, kVars, mVars, scVars, aVars, uParts, uIdx,
                   uResult, uResponses, uShot, uTrace, uUserTurn, uSeed>>

\* A candidate with content: contents.push(candidate.content); without
\* function calls the loop is left by break, otherwise the parts are dispatched.
TurnContent(ps) ==
    /\ uPc = "await"
    /\ uKind' = "content"
    /\ uContents' = Push(uContents, "model")
    /\ uParts' = ps
    /\ IF HasFunctionCalls(ps)
         THEN /\ uPc' = "next"
              /\ UNCHANGED uExit
         ELSE /\ uPc' = "done"
              /\ uExit' = "break"
    /\ UNCHANGED <<txVars, sVars, loopVars, kVars, mVars, scVars, aVars, uIdx, uResult,
                   uResponses, uShot, uTrace, uUserTurn, uSeed, uNotice>>

(***************************************************************************)
(* handleSubmit, stop, newChat, toggleBrowserTools over the MCP client     *)
(* cache, one await at a time                                              *)
(***************************************************************************)
\* handleSubmit up to its first await.  Browser-tools mode closes a cached
\* client before the loop; tool-router mode reuses the cached client and
\* tools or starts to create a client; regular mode streams a plain chat.
HandleSubmit(s) ==
    /\ ~mLoading
    /\ mHandlers[s].pc = "idle"
    /\ \A t \in Handlers : t < s => mHandlers[t].pc # "idle"
    /\ mLoading' = TRUE
    /\ LET Started(at, tools) ==
               [t \in Handlers |->
                   IF t = s
                     THEN [pc |-> at, client |-> NoClient, tools |-> tools,
                           signal |-> TRUE]
                     ELSE [mHandlers[t] EXCEPT !.signal = FALSE]]
       IN IF browserToolsEnabled
            THEN IF mcpClientRef # NoClient
                   THEN /\ mClosed' = mClosed \cup {mcpClientRef}
                        /\ mHandlers' = Started("closeCache", NoClient)
                   ELSE /\ mHandlers' = Started("loop", NoClient)
                        /\ UNCHANGED mClosed
            ELSE /\ UNCHANGED mClosed
                 /\ IF composioApiKey
                      THEN IF mcpClientRef # NoClient /\ mcpToolsRef # NoClient
                             THEN mHandlers' = Started("streamMcp", mcpToolsRef)
                             ELSE mHandlers' = Started("creating", NoClient)
                      ELSE mHandlers' = Started("chat", NoClient)
    /\ UNCHANGED <<txVars, sVars, loopVars, kVars, scVars, aVars, uVars, mcpClientRef,
                   mcpToolsRef, mCreated, browserToolsEnabled, composioApiKey,
                   ncPc, ncOld, tgPc>>

\* Browser-tools mode after the cached client's close() settled.
CacheClosed(s) ==
    /\ mHandlers[s].pc = "closeCache"
    /\ mcpClientRef' = NoClient /\ mcpToolsRef' = NoClient
    /\ mHandlers' = [mHandlers EXCEPT ![s].pc = "loop"]
    /\ UNCHANGED <<txVars, sVars, loopVars, kVars, scVars, aVars, uVars, mClosed,
                   mCreated, mLoading, browserToolsEnabled, composioApiKey,
                   ncPc, ncOld, tgPc>>

\* Tool-router mode: chrome.storage.local.get and experimental_createMCPClient
\* settled; outcome is "created", "noUrl" (no stored session) or "throws".
ClientCreated(s, outcome) ==
    /\ mHandlers[s].pc = "creating"
    /\ CASE outcome = "created" ->
              /\ mCreated < MaxClients
              /\ mCreated' = mCreated + 1
              /\ mHandlers' = [mHandlers EXCEPT ![s].pc = "tools",
                                                ![s].client = mCreated + 1]
              /\ UNCHANGED mLoading
         [] outcome = "noUrl" ->
              /\ mHandlers' = [mHandlers EXCEPT ![s].pc = "chat"]
              /\ UNCHANGED <<mCreated, mLoading>>
         [] OTHER ->
              /\ mHandlers' = [mHandlers EXCEPT ![s] = IdleHandler]
              /\ mLoading' = FALSE
              /\ UNCHANGED mCreated
    /\ UNCHANGED <<txVars, sVars, loopVars, kVars, scVars, aVars, uVars, mcpClientRef,
                   mcpToolsRef, mClosed, browserToolsEnabled, composioApiKey,
                   ncPc, ncOld, tgPc>>

\* mcpClient.tools() settled; outcome is "tools" (toolCount > 0), "none" or
\* "throws".
ToolsFetchedKeep(s, outcome) ==
    /\ mHandlers[s].pc = "tools"
    /\ mHandlers' = [mHandlers EXCEPT ![s].pc = "chat"]
    /\ UNCHANGED <<txVars, sVars, loopVars, kVars, scVars, aVars, uVars, mcpClientRef,
                   mcpToolsRef, mClosed, mCreated, mLoading, browserToolsEnabled,
                   composioApiKey, ncPc, ncOld, tgPc>>
ToolsFetched(s, outcome) ==
    /\ mHandlers[s].pc = "tools"
    /\ CASE outcome = "tools" ->
              /\ mcpClientRef' = mHandlers[s].client
              /\ mcpToolsRef' = mHandlers[s].client
              /\ mHandlers' = [mHandlers EXCEPT ![s].pc = "streamMcp",
                                                ![s].tools = mHandlers[s].client]
              /\ UNCHANGED <<mClosed, mLoading>>
         [] outcome = "none" ->
              /\ mClosed' = mClosed \cup {mHandlers[s].client}
              /\ mHandlers' = [mHandlers EXCEPT ![s].pc = "closeEmpty"]
              /\ UNCHANGED <<mcpClientRef, mcpToolsRef, mLoading>>
         [] OTHER ->
              /\ mHandlers' = [mHandlers EXCEPT ![s] = IdleHandler]
              /\ mLoading' = FALSE
              /\ UNCHANGED <<mcpClientRef, mcpToolsRef, mClosed>>
    /\ UNCHANGED <<txVars, sVars, loopVars, kVars, scVars, aVars, uVars, mCreated,
                   browserToolsEnabled, composioApiKey, ncPc, ncOld, tgPc>>

\* The client without tools: its close() settled and the fallback to plain
\* chat starts, or close() threw and handleSubmit's catch ends the handler.
FallbackChat(s, closeOk) ==
    /\ mHandlers[s].pc = "closeEmpty"
    /\ IF closeOk
         THEN /\ mHandlers' = [mHandlers EXCEPT ![s].pc = "chat"]
              /\ UNCHANGED mLoading
         ELSE /\ mHandlers' = [mHandlers EXCEPT ![s] = IdleHandler]
              /\ mLoading' = FALSE
    /\ UNCHANGED <<txVars, sVars, loopVars, kVars, scVars, aVars, uVars, mcpClientRef,
                   mcpToolsRef, mClosed, mCreated, browserToolsEnabled,
                   composioApiKey, ncPc, ncOld, tgPc>>

\* The loop or the stream returned or threw: setIsLoading(false).
StreamEnd(s) ==
    /\ mHandlers[s].pc \in {"loop", "streamMcp", "chat"}
    /\ mHandlers' = [mHandlers EXCEPT ![s] = IdleHandler]
    /\ mLoading' = FALSE
    /\ UNCHANGED <<txVars, sVars, loopVars, kVars, scVars, aVars, uVars, mcpClientRef,
                   mcpToolsRef, mClosed, mCreated, browserToolsEnabled,
                   composioApiKey, ncPc, ncOld, tgPc>>

\* stop() while a handler runs (the stop button is shown while isLoading):
\* abort() and setIsLoading(false).  Only the plain chat streams are given
\* the signal: the one started last ends with an AbortError.
StopHandlers ==
    /\ mLoading
    /\ \E s \in Handlers : mHandlers[s].pc # "idle"
    /\ mLoading' = FALSE
    /\ mHandlers' = [s \in Handlers |->
                       IF mHandlers[s].pc = "chat" /\ mHandlers[s].signal
                         THEN IdleHandler ELSE mHandlers[s]]
    /\ UNCHANGED <<txVars, sVars, loopVars, kVars, scVars, aVars, uVars, mcpClientRef,
                   mcpToolsRef, mClosed, mCreated, browserToolsEnabled,
                   composioApiKey, ncPc, ncOld, tgPc>>

\* newChat up to its first await: close() of the cached client, or with an
\* empty cache the session initialisation (when the Composio key is set).
NewChat ==
    /\ ncPc \in {"idle", "done"}
    /\ ncOld' = mcpClientRef
    /\ IF mcpClientRef # NoClient
         THEN /\ mClosed' = mClosed \cup {mcpClientRef}
              /\ ncPc' = "closing"
              /\ UNCHANGED <<mcpClientRef, mcpToolsRef>>
         ELSE /\ mcpClientRef' = NoClient /\ mcpToolsRef' = NoClient
              /\ ncPc' = IF composioApiKey THEN "init" ELSE "done"
              /\ UNCHANGED mClosed
    /\ UNCHANGED <<txVars, sVars, loopVars, kVars, scVars, aVars, uVars, mCreated,
                   mLoading, browserToolsEnabled, composioApiKey, mHandlers,
                   tgPc>>

\* newChat after close() settled or threw: both refs are set to null.
NewChatClosed ==
    /\ ncPc = "closing"
    /\ mcpClientRef' = NoClient /\ mcpToolsRef' = NoClient
    /\ ncPc' = IF composioApiKey THEN "init" ELSE "done"
    /\ UNCHANGED <<txVars, sVars, loopVars, kVars, scVars, aVars, uVars, mClosed,
                   mCreated, mLoading, browserToolsEnabled, composioApiKey,
                   mHandlers, ncOld, tgPc>>

\* newChat after initializeComposioToolRouter settled or threw.
NewChatDone ==
    /\ ncPc = "init"
    /\ ncPc' = "done"
    /\ UNCHANGED <<txVars, sVars, loopVars, kVars, scVars, aVars, uVars, mcpClientRef,
                   mcpToolsRef, mClosed, mCreated, mLoading, browserToolsEnabled,
                   composioApiKey, mHandlers, ncOld, tgPc>>

\* toggleBrowserTools (with a Google key configured) up to its await:
\* enabling closes and clears the cache.
ToggleBrowserTools ==
    /\ tgPc = "idle"
    /\ browserToolsEnabled' = ~browserToolsEnabled
    /\ IF ~browserToolsEnabled
         THEN IF mcpClientRef # NoClient
                THEN /\ mClosed' = mClosed \cup {mcpClientRef}
                     /\ tgPc' = "closing"
                     /\ UNCHANGED <<mcpClientRef, mcpToolsRef>>
                ELSE /\ mcpClientRef' = NoClient /\ mcpToolsRef' = NoClient
                     /\ UNCHANGED <<mClosed, tgPc>>
         ELSE UNCHANGED <<mcpClientRef, mcpToolsRef, mClosed, tgPc>>
    /\ UNCHANGED <<txVars, sVars, loopVars, kVars, scVars, aVars, uVars, mCreated,
                   mLoading, composioApiKey, mHandlers, ncPc, ncOld>>

\* toggleBrowserTools after close() settled or threw.
ToggleClosed ==
    /\ tgPc = "closing"
    /\ mcpClientRef' = NoClient /\ mcpToolsRef' = NoClient
    /\ tgPc' = "idle"
    /\ UNCHANGED <<txVars, sVars, loopVars, kVars, scVars, aVars, uVars, mClosed,
                   mCreated, mLoading, browserToolsEnabled, composioApiKey,
                   mHandlers, ncPc, ncOld>>

(***************************************************************************)
(* The content script's key_combination action (content.ts), one           *)
(* dispatchEvent at a time                                                 *)
(***************************************************************************)
MaxKeys == 3
KeyNames == {"Control", "Shift", "a", "Enter"}

\* new KeyboardEvent(type, { key, code: key, ... })
KeyEvent(type, key) == [type |-> type, key |-> key]

\* keysList[keysList.length - 1]
LastKey(keys) == IF keys = <<>> THEN NoField ELSE keys[Len(keys)]

\* The first loop: keydown for every key but the last.
KeyHold ==
    /\ kPc = "hold" /\ kI <= Len(kKeys) - 1
    /\ kEvents' = Append(kEvents, KeyEvent("keydown", kKeys[kI]))
    /\ kI' = kI + 1
    /\ UNCHANGED <<txVars, sVars, loopVars, scVars, aVars, uVars, mVars, kPc,
                   kKeys>>

\* The last key: keydown, keypress, keyup; then the second loop starts at the
\* last held key.
KeyPress ==
    /\ kPc = "hold" /\ kI > Len(kKeys) - 1
    /\ kEvents' = kEvents \o <<KeyEvent("keydown", LastKey(kKeys)),
                               KeyEvent("keypress", LastKey(kKeys)),
                               KeyEvent("keyup", LastKey(kKeys))>>
    /\ kPc' = "release"
    /\ kI' = Len(kKeys) - 1
    /\ UNCHANGED <<txVars, sVars, loopVars, scVars, aVars, uVars, mVars, kKeys>>

\* The second loop: keyup for the held keys, last held first.
KeyReleaseForward ==
    /\ kPc = "release" /\ kI >= 1
    /\ kEvents' = Append(kEvents, KeyEvent("keyup", kKeys[Len(kKeys) - kI]))
    /\ kI' = kI - 1
    /\ UNCHANGED <<txVars, sVars, loopVars, scVars, aVars, uVars, mVars, kPc,
                   kKeys>>
KeyRelease ==
    /\ kPc = "release" /\ kI >= 1
    /\ kEvents' = Append(kEvents, KeyEvent("keyup", kKeys[kI]))
    /\ kI' = kI - 1
    /\ UNCHANGED <<txVars, sVars, loopVars, scVars, aVars, uVars, mVars, kPc,
                   kKeys>>

\* return { success: true, message: 'Pressed key combination: ...' }
KeyReturn ==
    /\ kPc = "release" /\ kI < 1
    /\ kPc' = "done"
    /\ UNCHANGED <<txVars, sVars, loopVars, scVars, aVars, uVars, mVars, kKeys,
                   kI, kEvents>>

(***************************************************************************)
(* Specifications                                                          *)
(***************************************************************************)
Init == TxIdle /\ SIdle /\ LoopIdle /\ AuxIdle

Next ==
    \/ \E shotOk \in BOOLEAN : Submit(shotOk)
    \/ SendRequest
    \/ RequestTimeout
    \/ \E kind \in ResponseKinds : ReceiveError(kind)
    \/ ReceiveBlocked
    \/ \E userConfirmed \in BOOLEAN : ReceiveConfirm(userConfirmed)
    \/ \E ps \in ModelTurns : ReceiveContent(ps)
    \/ DispatchText
    \/ \E reply \in LoopReplies, answer \in BOOLEAN, result \in ActionResults :
          DispatchCall(reply, answer, result)
    \/ EndTurn
    \/ Stop

Spec == Init /\ [][Next]_vars

InitTransport == TxIdle /\ SIdle /\ LoopIdle /\ AuxIdle

NextTransport ==
    \/ \E t \in ToolNames : ExecuteTool(t)
    \/ \E r \in ChannelResponses : HandleResponse(r)
    \/ RetryTimer

SpecTransport == InitTransport /\ [][NextTransport]_vars

InitSafety ==
    /\ TxIdle /\ LoopIdle /\ AuxIdle
    /\ sPc = "input"
    /\ sFn \in FunctionNames
    /\ sArgs \in FunctionArgs
    /\ sPage \in [url : PageStrings, text : PageStrings]
    /\ sReply \in ContextReplies(sPage)
    /\ sAnswer \in BOOLEAN
    /\ sAsked = FALSE /\ sDenied = FALSE

NextSafety == Evaluate

SpecSafety == InitSafety /\ [][NextSafety]_vars

InitScale ==
    /\ TxIdle /\ SIdle /\ LoopIdle /\ AIdle /\ UIdle /\ MIdle /\ KIdle
    /\ scPc = "input"
    /\ scX \in 0..NormalizedMax
    /\ scY \in YSamples
    /\ scReply \in ScaleReplies
    /\ scOut = [x |-> 0, y |-> 0]

NextScale == Scale

SpecScale == InitScale /\ [][NextScale]_vars

InitAction ==
    /\ TxIdle /\ SIdle /\ LoopIdle /\ ScIdle /\ UIdle /\ MIdle /\ KIdle
    /\ aPc = "check"
    /\ aFn \in ActionNames
    /\ aArgs \in ActionArgs
    /\ aReply \in ActionReplies
    /\ aAnswer \in BOOLEAN
    /\ aAsked = FALSE /\ aDenied = FALSE
    /\ aPlan = <<>> /\ aLog = <<>> /\ aResult = UndefinedResult
    /\ aDelay = 0 /\ aShot = "none" /\ aFr = NoFunctionResponse

NextAction ==
    \/ SafetyCheck
    \/ \E outcome \in ToolOutcomes \cup {NoOutcome} : BackendStep(outcome)
    \/ Return
    \/ \E shotOk \in BOOLEAN : Respond(shotOk)

SpecAction == InitAction /\ [][NextAction]_vars

InitTurn ==
    /\ TxIdle /\ SIdle /\ LoopIdle /\ ScIdle /\ AIdle /\ MIdle /\ KIdle
    /\ \/ /\ uPc = "seed"
          /\ uContents \in Histories
          /\ uSeed = <<>>
       \/ /\ uPc = "await"
          /\ uContents \in {Append(SubSeq(h, 1, Len(h) - 1), "userImage") \o a :
                              h \in Histories, a \in Appendices}
          /\ uSeed = uContents
    /\ uParts = <<>>
    /\ uIdx = 1 /\ uResult = "none" /\ uResponses = <<>> /\ uShot = 0
    /\ uTrace = <<>> /\ uUserTurn = NoUserTurn
    /\ uExit = "" /\ uNotice = "" /\ uKind = ""

NextTurn ==
    \/ TurnSeed
    \/ TurnBlocked
    \/ \E userConfirmed \in BOOLEAN : TurnConfirm(userConfirmed)
    \/ \E ps \in ModelTurns : TurnContent(ps)
    \/ TurnText
    \/ \E result \in ActionResults : TurnAct(result)
    \/ TurnSettle
    \/ \E shotOk \in BOOLEAN : TurnCapture(shotOk)
    \/ TurnRespond
    \/ TurnEnd

SpecTurn == InitTurn /\ [][NextTurn]_vars

InitMcp ==
    /\ TxIdle /\ SIdle /\ LoopIdle /\ ScIdle /\ AIdle /\ UIdle /\ KIdle
    /\ mcpClientRef = NoClient /\ mcpToolsRef = NoClient
    /\ mClosed = {} /\ mCreated = 0 /\ mLoading = FALSE
    /\ browserToolsEnabled = FALSE /\ composioApiKey \in BOOLEAN
    /\ mHandlers = [s \in Handlers |-> IdleHandler]
    /\ ncPc = "idle" /\ ncOld = NoClient /\ tgPc = "idle"

NextMcp ==
    \/ \E s \in Handlers : HandleSubmit(s)
    \/ \E s \in Handlers : CacheClosed(s)
    \/ \E s \in Handlers, outcome \in {"created", "noUrl", "throws"} :
          ClientCreated(s, outcome)
    \/ \E s \in Handlers, outcome \in {"tools", "none", "throws"} :
          ToolsFetched(s, outcome)
    \/ \E s \in Handlers, closeOk \in BOOLEAN : FallbackChat(s, closeOk)
    \/ \E s \in Handlers : StreamEnd(s)
    \/ StopHandlers
    \/ NewChat
    \/ NewChatClosed
    \/ NewChatDone
    \/ ToggleBrowserTools
    \/ ToggleClosed

SpecMcp == InitMcp /\ [][NextMcp]_vars

\* keys || ['Enter']: the key lists a key_combination message can carry.
InitKeys ==
    /\ TxIdle /\ SIdle /\ LoopIdle /\ ScIdle /\ AIdle /\ UIdle /\ MIdle
    /\ kPc = "hold"
    /\ kKeys \in UNION {[1..n -> KeyNames] : n \in 0..MaxKeys}
    /\ kI = 1 /\ kEvents = <<>>

NextKeys == KeyHold \/ KeyPress \/ KeyRelease \/ KeyReturn

SpecKeys == InitKeys /\ [][NextKeys]_vars

(***************************************************************************)
(* Properties                                                              *)
(***************************************************************************)
TerminalReasons == {"completed", "blockedBySafetyFilter", "cancelledByUser",
                    "maxTurnsReached", "fatalError"}

\* C1: when the safety policy engine asked for confirmation and the user
\* denied it, the loop has ended at once with reason cancelledByUser and a
\* cancellation notice in the final message; it does not go on dispatching.
C1_DenialTerminates ==
    denied => /\ pc = "done"
              /\ reasons = {"cancelledByUser"}
              /\ "cancelNotice" \in lastMsg.content

\* C2: whenever a model request is in flight, every functionCall part of every
\* model turn in the conversation has its function response, by name, in the
\* user turn that follows it.
C2_NoUnansweredCall == pc = "await" => ~unanswered

\* C3: the loop sends at most maxTurns model requests and ends in exactly one
\* terminal state, whatever the model answers; until then a step remains.
C3_LoopTermination ==
    /\ requests <= maxTurns
    /\ reasons \subseteq TerminalReasons
    /\ Cardinality(reasons) <= 1
    /\ (pc = "done") <=> (Cardinality(reasons) = 1)
    /\ pc # "done" => ENABLED Next

\* C3 witness: a run with an accepted endpoint confirmation round that used
\* all maxTurns requests and ended in maxTurnsReached.
C3_Witness ==
    /\ pc = "done" /\ requests = maxTurns /\ ~allCalls
    /\ reasons = {"maxTurnsReached"}

SensitiveKeywords == {"checkout", "payment", "login", "signin", "admin",
                      "delete", "remove", "purchase", "confirm order",
                      "credit card", "cvv", "social security"}
ContainsSensitiveKeyword(str) ==
    \E k \in SensitiveKeywords : Includes(ToLowerCase(str), k)

\* C5: confirmation is asked for key_combination, and for any action when the
\* URL or the visible text of the page the context query answered for contains
\* a sensitive-page keyword.
C5_SafetyGate ==
    (/\ sPc = "done"
     /\ \/ sFn = "key_combination"
        \/ /\ sReply.kind = "context"
           /\ \/ ContainsSensitiveKeyword(sPage.url)
              \/ ContainsSensitiveKeyword(sPage.text))
    => sAsked

\* Function calls that change the page (click, type, navigate, key press).
MutatingFunctions == {"click_at", "navigate", "key_combination", "type_text_at",
                      "type_text", "keyboard_input"}
\* The reply of a page-context query that succeeds on the page.
Inspected(page) == InterfaceContext(page)

\* C6: when the page-context query fails, a mutating action for which the
\* inspected page would have required confirmation is still confirmed.
C6_FailClosed ==
    (/\ sPc = "done"
     /\ sReply.kind # "context"
     /\ sFn \in MutatingFunctions
     /\ ConfirmationRequired(sFn, sArgs, Inspected(sPage)))
    => sAsked

\* C7: after stop() the loop starts no new model request.
C7_NoRequestAfterStop == ~sentAfterStop

\* C8: a model request that times out, fails, returns a non-OK status or has
\* no candidate ends the loop in fatalError with the error message as the
\* final assistant message.
C8_FatalSurfaced ==
    thrown.at = "request" =>
        /\ pc = "done" /\ reasons = {"fatalError"}
        /\ lastMsg.role = "assistant" /\ "error" \in lastMsg.content

C10_DistinctFinalMessage ==
    pc = "done" =>
        /\ reasons = {"completed"} => lastMsg.content = FinalContent(responseText)
        /\ reasons = {"blockedBySafetyFilter"} => lastMsg.content = {"blockNotice"}
        /\ reasons = {"cancelledByUser"} => "cancelNotice" \in lastMsg.content
        /\ reasons = {"maxTurnsReached"} => "incompleteNotice" \in lastMsg.content

\* r is x rounded to the nearest integer, a tie going up, for x = num / den.
IsRounded(r, num, den) ==
    /\ 2 * den * r - den <= 2 * num
    /\ 2 * num < 2 * den * r + den

\* C11: for x, y in 0..1000 and a viewport (w, h) in the page context,
\* scaleCoordinates returns (round(x*w/1000), round(y*h/1000)).
C11_ScaleFormula ==
    (scPc = "done" /\ scReply.hasViewport) =>
        /\ IsRounded(scOut.x, scX * scReply.viewport.width, 1000)
        /\ IsRounded(scOut.y, scY * scReply.viewport.height, 1000)

\* The context of a page whose viewport is 1440 x 900.
DefaultContext ==
    [kind |-> "context", hasViewport |-> TRUE,
     viewport |-> [width |-> 1440, height |-> 900]]

\* C12 as stated: when the page context brought no viewport, scaleCoordinates
\* returns its input unscaled.
C12_UnscaledFallback ==
    (scPc = "done" /\ ~scReply.hasViewport) =>
        scOut = [x |-> scX, y |-> scY]

\* C12 as amended: when the query resolves without a viewport, the result is
\* the one a 1440 x 900 viewport gives; only when the query rejects is the
\* input returned unscaled.
C12_DefaultViewport ==
    (scPc = "done" /\ ~scReply.hasViewport) =>
        IF scReply.kind = "throws"
          THEN scOut = [x |-> scX, y |-> scY]
          ELSE scOut = ScaleCoordinates(scX, scY, DefaultContext)

\* C12 witness: a query that resolved with no response object, answered by
\* scaling (500, 500) to the default viewport.
C12_Witness ==
    /\ scPc = "done" /\ scReply.kind = "undefined"
    /\ scX = 500 /\ scY = 500
    /\ scOut = [x |-> 720, y |-> 450]

\* The messages that name one of the two connection errors.
ConnectionErrorTexts == {ErrRecv, ErrConn, ErrBoth}

\* C13: an attempt that ends with anything but a connection error is not
\* retried: the call is resolved, not rejected, with that very response and no
\* further attempt follows; when it was the first attempt, exactly one attempt
\* was made.
C13_NoRetryOnOtherError ==
    /\ txPc = "delay" => ErrorMsg(txLast) \in ConnectionErrorTexts
    /\ (txPc \in {"delay", "resolved", "rejected"} /\ txTool \in KnownTools
        /\ ErrorMsg(txLast) \notin ConnectionErrorTexts) =>
          /\ txPc = "resolved"
          /\ txResult = txLast
          /\ txAttempts = retryCount + 1
          /\ ~ENABLED NextTransport
    /\ (txPc = "resolved" /\ retryCount = 0) => txAttempts = 1

\* C13 witness: a call resolved after one attempt with the "Element not
\* found" response of the backend.
C13_Witness ==
    /\ txPc = "resolved" /\ txAttempts = 1
    /\ txLast = [defined |-> TRUE, error |-> ErrElem, lastError |-> ""]
    /\ txResult = txLast

\* The call is over: executeBrowserAction returned, or the loop handled it.
ActionOver == aPc \in {"returned", "responded", "thrown"}

\* C14: when the executeTool call of a function ended, at its last attempt,
\* with "Receiving end does not exist" in the response's error field or in
\* lastError, executeBrowserAction returns a result with that error and the
\* loop pushes it as the call's function response.
C14_ConnectionErrorSurfaced ==
    \A i \in 1..Len(aLog) :
        (/\ ActionOver
         /\ aLog[i].returned /\ aLog[i].via = "executeTool"
         /\ ErrorMsg(aLog[i].outcome) = ErrRecv) =>
           /\ aResult.defined /\ aResult.error = ErrRecv
           /\ aPc # "thrown"
           /\ aPc = "responded" => (aFr.pushed /\ aFr.error = ErrRecv)

\* C15: a function name that is no case of the switch, once the safety check
\* let the call through, returns {success:false, error:'Unknown function'}
\* with no message sent to the backend and nothing thrown, and the loop pushes
\* that result as the call's function response.
C15_UnknownFunction ==
    (ActionOver /\ ~aDenied /\ aFn = "double_click") =>
        /\ aResult = [defined |-> TRUE, success |-> "false",
                      error |-> "Unknown function"]
        /\ aLog = <<>>
        /\ aPc # "thrown"
        /\ aPc = "responded" =>
              aFr = [pushed |-> TRUE, name |-> aFn, success |-> FALSE,
                     error |-> "Unknown function"]

\* C15 witness: the unknown name on a page without sensitive keywords, its
\* failure result pushed as function response.
C15_Witness ==
    /\ aPc = "responded" /\ aFn = "double_click" /\ ~aAsked
    /\ aFr.pushed /\ ~aFr.success /\ aFr.error = "Unknown function"

\* C16: a call of click, click_at or mouse_click that the safety check let
\* through sends exactly one backend message, a click through executeTool; a
\* call of navigate, open_web_browser, navigate_to or go_to exactly one, a
\* navigate.
C16_AliasResolution ==
    (ActionOver /\ ~aDenied) =>
        /\ aFn \in {"click", "click_at", "mouse_click"} =>
              /\ Len(aLog) = 1
              /\ aLog[1].tool = "click" /\ aLog[1].via = "executeTool"
        /\ aFn \in {"navigate", "open_web_browser", "navigate_to", "go_to"} =>
              /\ Len(aLog) = 1
              /\ aLog[1].tool = "navigate" /\ aLog[1].via = "executeTool"

\* C16 witness: mouse_click done with its one click message.
C16_Witness ==
    /\ aPc = "responded" /\ aFn = "mouse_click"
    /\ Len(aLog) = 1 /\ aLog[1].tool = "click"

\* C17: every coordinate a call sends to the backend is the scaled value of
\* the model's coordinate for the viewport of the call's page-context query.
C17_CoordinatesScaled ==
    \A i \in 1..Len(aLog) :
        (aArgs.hasXY /\ aLog[i].x # -1) =>
           /\ [x |-> aLog[i].x, y |-> aLog[i].y]
                = ScaleCoordinates(ModelPoint.x, ModelPoint.y, aReply)
           /\ aLog[i].destination_x # -1 =>
                [x |-> aLog[i].destination_x, y |-> aLog[i].destination_y]
                  = ScaleCoordinates(ModelPoint.destination_x,
                                     ModelPoint.destination_y, aReply)

\* A sub-step failed: no response, success false, or an error reported.
StepFailed(o) == ~o.defined \/ o.success = "false" \/ o.error # ""

\* C18: in type_text_at a failed sub-step is the last one sent, and its
\* result is what the compound action returns.
C18_ShortCircuit ==
    aFn = "type_text_at" =>
        \A i \in 1..Len(aLog) :
            StepFailed(aLog[i].outcome) =>
               /\ i = Len(aLog)
               /\ ActionOver => aResult = Resolved(aLog[i].outcome)

\* The place of an event in the handling of one call.
Rank(ev) ==
    CASE ev = "action" -> 1 [] ev = "settled" -> 2
      [] ev = "screenshot" -> 3 [] ev = "response" -> 4

\* C19: the calls of a model turn run one after another in the order of the
\* parts: whatever the loop does for a call (action, settle delay, screenshot,
\* response) comes after everything it did for the calls before it, and the
\* function responses, also in the user turn, are in the order of the parts.
C19_Ordering ==
    /\ \A p, q \in 1..Len(uTrace) :
          p < q => \/ uTrace[p].part < uTrace[q].part
                   \/ /\ uTrace[p].part = uTrace[q].part
                      /\ Rank(uTrace[p].ev) < Rank(uTrace[q].ev)
    /\ \A k, l \in 1..Len(uResponses) :
          k < l => uResponses[k].part < uResponses[l].part
    /\ \A k \in 1..Len(uResponses) :
          uResponses[k].name = uParts[uResponses[k].part].call
    /\ uUserTurn.pushed => uUserTurn.responses = uResponses

\* C19 witness: a turn of two calls, both run, their responses in the user
\* turn in the order of the parts.
C19_Witness ==
    /\ uPc = "done" /\ Len(uTrace) = 8
    /\ uUserTurn.pushed /\ Len(uUserTurn.responses) = 2
    /\ uUserTurn.responses[1].name = "click_at"
    /\ uUserTurn.responses[2].name = "key_combination"

\* The event of a kind recorded for a part.
EventOf(ev, part) ==
    CHOOSE e \in {uTrace[i] : i \in 1..Len(uTrace)} :
        e.ev = ev /\ e.part = part

\* Every function response of the turn is in the user turn, with success true
\* when the action reported success.
ResponsesPushed ==
    /\ uUserTurn.pushed /\ uUserTurn.responses = uResponses
    /\ \A k \in 1..Len(uResponses) :
          EventOf("action", uResponses[k].part).info = "success"
             => uResponses[k].success

\* C20 as stated: the user turn pushed after a turn with executed calls holds
\* their function responses and the image of the screenshot taken after the
\* last executed call.
C20_FreshImage ==
    (uPc = "done" /\ uResponses # <<>>) =>
        /\ ResponsesPushed
        /\ uUserTurn.image = uResponses[Len(uResponses)].part

\* C20 as amended: the user turn holds the function responses, and the image
\* of the screenshot taken after the last executed call when that capture
\* brought an image; when it did not, the user turn has no image part.
C20_ImageWhenCaptured ==
    (uPc = "done" /\ uResponses # <<>>) =>
        /\ ResponsesPushed
        /\ LET last == uResponses[Len(uResponses)].part
           IN IF EventOf("screenshot", last).info = "ok"
                THEN uUserTurn.image = last
                ELSE uUserTurn.image = NoShot

\* C20 witness: two calls run, the capture after the first failed and the one
\* after the second brought the image that is in the user turn.
C20_Witness ==
    /\ uPc = "done" /\ Len(uResponses) = 2
    /\ EventOf("screenshot", 1).info = "failed"
    /\ uUserTurn.pushed /\ uUserTurn.image = 2
    /\ uUserTurn.responses[2].success

\* C21: after a response with a prompt-level block the iteration has
\* returned: the block notice is in the assistant message, nothing was
\* executed, the conversation is as it was when the request was sent, and the
\* loop does not go on to another request.
C21_BlockTerminates ==
    uKind = "blocked" =>
        /\ uPc = "done" /\ uExit = "return"
        /\ uNotice = "blockNotice"
        /\ uTrace = <<>> /\ uParts = <<>>
        /\ uContents = uSeed

\* C21 witness: a block in a later iteration, after a dispatched turn.
C21_Witness ==
    /\ uKind = "blocked" /\ uPc = "done"
    /\ uContents = <<"userImage", "model", "functionResponses">>

\* C22: after a response with the endpoint's confirmation marker nothing of
\* it was executed; accepted, the loop continues with exactly the CONFIRMED
\* user turn appended; declined, it has returned with the cancellation notice
\* and the conversation as it was.
C22_EndpointConfirmation ==
    /\ uKind \in {"accepted", "declined"} =>
          uPc = "done" /\ uTrace = <<>> /\ uParts = <<>>
    /\ uKind = "accepted" =>
          uExit = "continue" /\ uContents = Append(uSeed, "confirmed")
    /\ uKind = "declined" =>
          /\ uExit = "return" /\ uNotice = "cancelNotice"
          /\ uContents = uSeed

\* C22 witness: the confirmation accepted at the first request.
C22_Witness ==
    /\ uKind = "accepted" /\ uExit = "continue"
    /\ uContents = <<"userImage", "confirmed">>

\* C28: once the first request is sent, a step leaves the turns of the
\* conversation as they are and can only add turns at its end.
C28_AppendOnly ==
    [][uPc # "seed" =>
          /\ Len(uContents') >= Len(uContents)
          /\ SubSeq(uContents', 1, Len(uContents)) = uContents]_vars

\* C28 witness: an iteration that appended the model turn and the user turn
\* with the function responses.
C28_Witness ==
    /\ uPc = "done" /\ uExit = "continue"
    /\ uContents = uSeed \o <<"model", "functionResponses">>

\* C23 as stated: a run that ended in completed shows the accumulated model
\* text, and exactly the text of the last turn when no earlier turn had text.
C23_ModelTextOnly ==
    (pc = "done" /\ reasons = {"completed"}) =>
        /\ lastMsg.content = responseText \ {"exec"}
        /\ ("final" \in responseText /\ "text" \notin responseText) =>
              lastMsg.content = {"final"}

\* C23 as amended: a run that ended in completed dispatched nothing of the
\* last turn and sends no request any more; it shows the accumulated text,
\* which holds the model's text and a marker for each executed call, or the
\* 'Task completed' default when that is empty; it is exactly the text of the
\* last turn when no earlier turn had text or executed a call.
C23_Completed ==
    (pc = "done" /\ reasons = {"completed"}) =>
        /\ parts = <<>> /\ functionResponses = <<>>
        /\ ~ENABLED SendRequest
        /\ lastMsg.content = IF responseText = {} THEN {"taskCompleted"}
                             ELSE responseText
        /\ responseText = {"final"} => lastMsg.content = {"final"}

\* C23 witness: calls were executed in earlier turns, then a turn with text
\* only ended the run.
C23_Witness ==
    /\ pc = "done" /\ reasons = {"completed"}
    /\ responseText = {"exec", "final"}
    /\ lastMsg.content = {"exec", "final"}

\* The function names whose Dispatcher branch types text.
TextEntryAliases == {"type", "type_text", "keyboard_input", "input_text",
                     "type_text_at"}
\* Page-text phrases of the sensitiveInput rule.
InputPagePhrases == {"credit card", "cvv", "social security"}

\* C24: for every text-entry alias, confirmation is asked when the text to be
\* typed contains "password" in any case or matches the card pattern, or when
\* the text of the page mentions credit card, CVV or social security.
C24_SensitiveInput ==
    (/\ sPc = "done"
     /\ sFn \in TextEntryAliases
     /\ \/ /\ sArgs.text # NoField
           /\ \/ Includes(ToLowerCase(sArgs.text), "password")
              \/ MatchesCardPattern(sArgs.text)
        \/ \E ph \in InputPagePhrases : Includes(ToLowerCase(sPage.text), ph))
    => sAsked

\* C25: the Enter key that submits after typing is sent only for a call for
\* which the confirmation dialog was shown.
C25_EnterGated ==
    \A i \in 1..Len(aLog) :
        (aLog[i].tool = "pressKey" /\ aLog[i].param = "Enter") => aAsked

\* C26: every key combination sent to the backend belongs to a function call
\* for which the confirmation dialog was shown and accepted.
C26_KeyComboConfirmed ==
    \A i \in 1..Len(aLog) :
        aLog[i].tool = "keyCombo" => (aAsked /\ aAnswer /\ ~aDenied)

\* C27: when newChat completes, close() has been called on the client it found
\* in the cache and both refs are empty; a submission accepted after that does
\* not reuse that client.
C27_NewChatTearsDown ==
    [][/\ (ncPc # "done" /\ ncPc' = "done") =>
            /\ mcpClientRef' = NoClient /\ mcpToolsRef' = NoClient
            /\ ncOld # NoClient => ncOld \in mClosed'
       /\ \A s \in Handlers :
            (ncPc = "done" /\ ncOld # NoClient /\ mHandlers[s].pc = "idle"
                /\ mHandlers'[s].pc = "streamMcp")
            => mHandlers'[s].tools # ncOld]_vars

\* C29: the function response pushed for a call reports success false exactly
\* when the result of executeBrowserAction carries success = false, and
\* success true when its success field is true or absent.
C29_SuccessDefault ==
    aFr.pushed =>
        /\ aResult.success = "false" => ~aFr.success
        /\ aResult.success \in {"true", "absent"} => aFr.success

\* C29 witness: a result without a success field was reported as a success.
C29_Witness ==
    /\ aFr.pushed /\ aResult.defined /\ aResult.success = "absent"
    /\ aFr.success

\* Navigation-like calls: navigate and its aliases, click and its aliases, and
\* a typing call that submitted with the Enter key.
NavigationLike ==
    \/ aFn \in {"navigate", "open_web_browser", "navigate_to", "go_to",
                "click", "click_at", "mouse_click"}
    \/ /\ aFn = "type_text_at"
       /\ \E i \in 1..Len(aLog) :
            aLog[i].tool = "pressKey" /\ aLog[i].param = "Enter"

\* C30: the screenshot after a call is requested after the long settle delay
\* when the call is navigation-like and after the short one otherwise, never
\* before the delay.
C30_TimingPolicy ==
    /\ aShot # "none" => aDelay > 0
    /\ aPc \in {"responded", "thrown"} =>
          aDelay = IF NavigationLike THEN 2500 ELSE 500

\* C31: every backend message of a function call, each sub-step of a compound
\* action included, is sent through executeTool, the call that retries on a
\* connection error.
C31_ThroughTransport ==
    \A i \in 1..Len(aLog) : aLog[i].via = "executeTool"

\* C32: for a function call on which a rule of requiresUserConfirmation fires,
\* the dialog is shown before any message of the call, messages of the call
\* are sent only after the user accepted, and none is ever sent when the user
\* denied.
C32_GateBeforeAction ==
    (aPc \notin {"idle", "check"} /\ ConfirmationRequired(aFn, aArgs, aReply)) =>
        /\ aAsked
        /\ aLog # <<>> => aAnswer
        /\ ~aAnswer => (aDenied /\ aLog = <<>> /\ aPlan = <<>>)

\* C32 witness: a rule fired, the user denied, and the call was answered to
\* the model without a single message of it having been sent.
C32_Witness ==
    /\ aPc = "responded" /\ aFn = "type_text_at"
    /\ aAsked /\ aDenied /\ aLog = <<>>
    /\ aResult = CancelledResult

\* The sub-steps the "type at coordinates" action is to issue for its
\* arguments, as <<action, key>> pairs.
TypeAtSteps ==
    (IF aArgs.hasXY THEN <<(<<"click", "">>)>> ELSE <<>>)
    \o (IF aArgs.clear
          THEN <<(<<"keyCombo", "select-all">>), (<<"pressKey", "Delete">>)>>
          ELSE <<>>)
    \o <<(<<"keyboard_type", "">>)>>
    \o (IF aArgs.press_enter \in {"true", "1"}
          THEN <<(<<"pressKey", "Enter">>)>> ELSE <<>>)
\* The sub-steps sent so far.
TypeAtSent == [i \in 1..Len(aLog) |-> <<aLog[i].tool, aLog[i].param>>]

\* C33: type_text_at sends its sub-steps one after the other in the order
\* click (when coordinates are given, at the scaled point), select-all and
\* delete (unless clearing is off), type, Enter (when requested), and returns
\* the result of the type step.
C33_TypeAtOrder ==
    (aFn = "type_text_at" /\ aPc \in {"run", "returned"} /\ ~aDenied) =>
        /\ Len(aLog) <= Len(TypeAtSteps)
        /\ TypeAtSent = SubSeq(TypeAtSteps, 1, Len(aLog))
        /\ \A i \in 1..Len(aLog) :
             aLog[i].tool = "click" =>
                [x |-> aLog[i].x, y |-> aLog[i].y]
                    = ScaleCoordinates(ModelPoint.x, ModelPoint.y, aReply)
        /\ aPc = "returned" =>
             /\ TypeAtSent = TypeAtSteps
             /\ \E i \in 1..Len(aLog) :
                  /\ aLog[i].tool = "keyboard_type"
                  /\ aResult = Resolved(aLog[i].outcome)

\* C33 witness: a type_text_at call with coordinates, clearing and Enter
\* returned after its five sub-steps.
C33_Witness ==
    /\ aFn = "type_text_at" /\ aPc = "returned" /\ ~aDenied
    /\ Len(aLog) = 5 /\ aLog[1].tool = "click" /\ aLog[5].param = "Enter"
    /\ aResult.defined

\* C34: the attempts of one executeTool call follow one another: an attempt
\* is sent only at the call and by the retry timer, the timer is armed only by
\* the response of the attempt in flight, and the promise is settled once, by
\* the response of the last attempt, after which nothing more is sent.
C34_SequentialRetries ==
    [][/\ txAttempts' # txAttempts =>
            /\ txPc \in {"idle", "delay"} /\ txPc' = "sent"
            /\ txAttempts' = txAttempts + 1
       /\ (txPc # "delay" /\ txPc' = "delay") =>
            /\ txPc = "sent" /\ txAttempts' = txAttempts
            /\ ErrorMsg(txLast') \in ConnectionErrorTexts
       /\ (txPc # "resolved" /\ txPc' = "resolved") =>
            /\ txPc = "sent" /\ txResult' = txLast'
            /\ txAttempts' = txAttempts
       /\ txPc \in {"resolved", "rejected"} =>
            /\ txPc' = txPc /\ txResult' = txResult
            /\ txAttempts' = txAttempts]_vars

\* C34 witness: a call resolved by its third attempt, after two retries.
C34_Witness ==
    /\ txPc = "resolved" /\ txAttempts = 3 /\ retryCount = 2
    /\ ErrorMsg(txResult) = ""

\* The handleSubmit calls that have not returned yet.
RunningHandlers == {s \in Handlers : mHandlers[s].pc # "idle"}

\* C35: at most one request handler started by handleSubmit runs at any time.
C35_SingleHandler == Cardinality(RunningHandlers) <= 1

\* C36: the tools handed to a streaming call never belong to a client that
\* close() was already called on, and the cached client and the cached tools
\* are both set or both empty.
C36_NoToolsOfClosedClient ==
    [][/\ \A s \in Handlers :
            (mHandlers[s].pc # "streamMcp" /\ mHandlers'[s].pc = "streamMcp")
            => mHandlers'[s].tools \notin mClosed'
       /\ (mcpClientRef = NoClient) <=> (mcpToolsRef = NoClient)
       /\ (mcpClientRef' = NoClient) <=> (mcpToolsRef' = NoClient)]_vars

\* A close() of the cached client is awaited by newChat, toggleBrowserTools
\* or a submission in browser-tools mode.
CacheClosing ==
    \/ ncPc = "closing" \/ tgPc = "closing"
    \/ \E s \in Handlers : mHandlers[s].pc = "closeCache"

\* C37: a freshly created client whose discovery returned no tools has had
\* close() called before the fallback chat starts, and it is not in the cache,
\* neither then nor later.
C37_EmptyClientClosed ==
    /\ \A s \in Handlers :
          (mHandlers[s].pc \in {"closeEmpty", "chat"}
              /\ mHandlers[s].client # NoClient) =>
             /\ mHandlers[s].client \in mClosed
             /\ mcpClientRef # mHandlers[s].client
             /\ mcpToolsRef # mHandlers[s].client
    /\ (mcpClientRef # NoClient /\ ~CacheClosing) => mcpClientRef \notin mClosed

\* C37 witness: the fallback chat runs for a submission whose fresh client had
\* no tools; the client was closed and the cache is empty.
C37_Witness ==
    \E s \in Handlers :
        /\ mHandlers[s].pc = "chat" /\ mHandlers[s].client # NoClient
        /\ mHandlers[s].client \in mClosed
        /\ mcpClientRef = NoClient

\* C38: when the first screenshot fails the run ends in a fatal error that
\* names the screenshot, with no model request and no backend action made and
\* none to come; a model request is sent only after a successful capture.
C38_ScreenshotFirst ==
    /\ thrown.at = "screenshot" =>
          /\ pc = "done" /\ reasons = {"fatalError"} /\ ~isLoading
          /\ thrown.name = "Error" /\ lastMsg.content = {"error"}
          /\ requests = 0 /\ turn = 0
          /\ parts = <<>> /\ functionResponses = <<>> /\ responseText = {}
          /\ ~ENABLED SendRequest
    /\ requests > 0 => thrown.at # "screenshot"

\* C38 witness: a submission ended at its first screenshot.
C38_Witness ==
    /\ pc = "done" /\ thrown = [name |-> "Error", at |-> "screenshot"]
    /\ requests = 0 /\ reasons = {"fatalError"}

\* The keys still held after a sequence of events that is properly nested
\* (a keyup releases the key pressed last among those held), or <<"bad">>
\* when some keyup does not.
RECURSIVE HeldAfter(_, _)
HeldAfter(evs, held) ==
    IF evs = <<>> THEN held
    ELSE LET e == Head(evs)
         IN CASE e.type = "keydown" ->
                   HeldAfter(Tail(evs), Append(held, e.key))
              [] e.type = "keyup" ->
                   IF held # <<>> /\ held[Len(held)] = e.key
                     THEN HeldAfter(Tail(evs), SubSeq(held, 1, Len(held) - 1))
                     ELSE <<"bad">>
              [] OTHER -> HeldAfter(Tail(evs), held)

\* C39: for a non-empty key list the action dispatches keydown for each held
\* key in list order, keydown, keypress, keyup for the last key, and keyup for
\* the held keys in reverse order; the sequence is properly nested and leaves
\* no key held.
C39_NestedKeyEvents ==
    (kPc = "done" /\ kKeys # <<>>) =>
        LET n == Len(kKeys)
        IN /\ Len(kEvents) = 2 * (n - 1) + 3
           /\ \A i \in 1..(n - 1) :
                /\ kEvents[i] = [type |-> "keydown", key |-> kKeys[i]]
                /\ kEvents[Len(kEvents) + 1 - i]
                     = [type |-> "keyup", key |-> kKeys[i]]
           /\ kEvents[n] = [type |-> "keydown", key |-> kKeys[n]]
           /\ kEvents[n + 1] = [type |-> "keypress", key |-> kKeys[n]]
           /\ kEvents[n + 2] = [type |-> "keyup", key |-> kKeys[n]]
           /\ HeldAfter(kEvents, <<>>) = <<>>

\* C39 witness: Control+Shift+a was dispatched as seven events.
C39_Witness ==
    /\ kPc = "done" /\ kKeys = <<"Control", "Shift", "a">>
    /\ Len(kEvents) = 7
    /\ kEvents[7] = [type |-> "keyup", key |-> "Control"]

====
